---- MODULE Spec2Model ----
(***************************************************************************)
(* Walkie-talkie session and message-delivery core.                        *)
(*                                                                         *)
(*   server  : src/server/src/services/socketService.ts (socket service,   *)
(*             emergency service and DatabaseService)                      *)
(*   client  : src/client/src/services/socketService.ts (SocketService)    *)
(*   player  : src/unnamed/part_004 (useAudioPlayer)                       *)
(*                                                                         *)
(* JavaScript strings are sequences of one-character strings; a value of   *)
(* unknown type is a record [t |-> typeof, s |-> characters].  null (and   *)
(* the empty string, which the code tests with the same "!x") is <<>>.     *)
(***************************************************************************)
EXTENDS Naturals, Integers, Sequences, FiniteSets, TLC

(***************************************************************************)
(* Bounds of the model and program constants.                              *)
(***************************************************************************)
NumSockets == 3
MaxUserIds == 3
MaxTime == 3
MaxMessages == 3

MAX_USERS_PER_CHANNEL == 2
MAX_CODE_GENERATION_ATTEMPTS == 2
MIN_NICKNAME_LENGTH == 1
MAX_NICKNAME_LENGTH == 24

Sockets == 1..NumSockets
\* The connections that send audio and emergency broadcasts.
NumSenders == 1
Senders == 1..NumSenders
\* The user ids handed out where the subject is what members send.
MaxSenderIds == 2

(***************************************************************************)
(* Strings.                                                                *)
(***************************************************************************)
Digit == {"0", "1", "2", "3", "4", "5", "6", "7", "8", "9"}
Whitespace == {" "}

Str(s) == [t |-> "string", s |-> s]
NonString == [t |-> "undefined", s |-> <<>>]
Null == <<>>

RECURSIVE TrimStart(_)
TrimStart(s) ==
  IF s # <<>> /\ Head(s) \in Whitespace THEN TrimStart(Tail(s)) ELSE s

RECURSIVE TrimEnd(_)
TrimEnd(s) ==
  IF s # <<>> /\ s[Len(s)] \in Whitespace
  THEN TrimEnd(SubSeq(s, 1, Len(s) - 1))
  ELSE s

Trim(s) == TrimEnd(TrimStart(s))

RECURSIVE Repeat(_, _)
Repeat(c, n) == IF n = 0 THEN <<>> ELSE <<c>> \o Repeat(c, n - 1)

DigitChar(d) ==
  CASE d = 0 -> "0" [] d = 1 -> "1" [] d = 2 -> "2" [] d = 3 -> "3"
    [] d = 4 -> "4" [] d = 5 -> "5" [] d = 6 -> "6" [] d = 7 -> "7"
    [] d = 8 -> "8" [] d = 9 -> "9"

RECURSIVE NumberToString(_)
NumberToString(n) ==
  IF n < 10 THEN <<DigitChar(n)>>
  ELSE NumberToString(n \div 10) \o <<DigitChar(n % 10)>>

PadStart(s, width, c) ==
  IF Len(s) >= width THEN s ELSE Repeat(c, width - Len(s)) \o s

(***************************************************************************)
(* Validation helpers of the server.                                       *)
(***************************************************************************)
normalizeNickname(value) ==
  IF value.t # "string" THEN Null
  ELSE LET trimmed == Trim(value.s) IN
       IF Len(trimmed) < MIN_NICKNAME_LENGTH \/ Len(trimmed) > MAX_NICKNAME_LENGTH
       THEN Null
       ELSE trimmed

isValidChannelCode(value) ==
  /\ value.t = "string"
  /\ Len(value.s) = 4
  /\ \A i \in 1..Len(value.s) : value.s[i] \in Digit

(***************************************************************************)
(* Server state (createSocketService, createEmergencyService,              *)
(* DatabaseService).                                                       *)
(***************************************************************************)
VARIABLES
  channels,               \* Map<code, ChannelState>
  socketIndex,            \* Map<socketId, {channelCode, userId}>
  rooms,                  \* socket.io rooms each socket has joined
  audioRateLimit,         \* Map<userId, {count, resetAt}>
  lastBroadcastByUserId,  \* Map<userId, number>
  dbAvailable,            \* FALSE when DatabaseService failed to initialise (db = null)
  dbChannels,             \* table channels: code -> row
  dbMessages,             \* table messages, in insertion order
  dbEmergency,            \* table emergency_log, in insertion order
  now,                    \* Date.now()
  nextUserId,             \* randomUUID() for users: ids are never reused
  nextMsgId,              \* randomUUID() for messages and broadcasts
  last                    \* the request handled last: its acknowledgement and events

serverVars ==
  <<channels, socketIndex, rooms, audioRateLimit, lastBroadcastByUserId,
    dbAvailable, dbChannels, dbMessages, dbEmergency, now, nextUserId, nextMsgId, last>>

VARIABLES
  connected,              \* socket.connected
  queue,                  \* SocketService.queue
  transmitted,            \* the requests handed to socket.emit, in order
  issued,                 \* number of requests issued through emit and emitWithAck
  audioRetryQueue,        \* SocketService.audioRetryQueue
  drains,                 \* flushAudioRetryQueue calls awaiting an acknowledgement
  sending,                \* sendAudioMessage calls awaiting an acknowledgement
  reported,               \* statuses reported for each payload (result, listeners)
  nextPayloadId,          \* payloads handed to sendAudioMessage so far
  nextDrainId             \* flushAudioRetryQueue calls that took items so far

audioClientVars ==
  <<audioRetryQueue, drains, sending, reported, nextPayloadId, nextDrainId>>

VARIABLES
  status,                 \* SocketService.status
  shouldReconnect,        \* SocketService.shouldReconnect
  reconnectAttempts,      \* SocketService.reconnectAttempts
  reconnectTimer,         \* SocketService.reconnectTimer: a timer handle, 0 for null
  pendingTimers,          \* the reconnect timeouts set and neither fired nor cleared
  heartbeatTimer,         \* SocketService.heartbeatTimer is set
  attempting,             \* socket.connect() was called and has not ended yet
  waits,                  \* emitWithAckNow calls of requests: settled, timer, callback
  promises,               \* per request with acknowledgement: how its promise was settled
  quality                 \* the sample emitQuality gave the listeners last

managerVars ==
  <<status, shouldReconnect, reconnectAttempts, reconnectTimer, pendingTimers,
    heartbeatTimer, attempting, waits, promises, quality>>
clientVars == <<connected, queue, transmitted, issued, audioClientVars, managerVars>>

VARIABLES
  queueRef,               \* the pending queue
  currentRef,             \* the playing slot
  playbackTokenRef,
  decoding,               \* playNext calls awaiting their decode: item and token
  sources,                \* tokens of started sources whose onended has not fired
  microtasks,             \* continuations of stopCurrent().then(...) not yet run
  nextItemId,             \* ids of the items enqueued so far
  awaited,                \* the urgent item that interrupted a routine one and has not played yet
  playerLast              \* the player step taken last

playerVars ==
  <<queueRef, currentRef, playbackTokenRef, decoding, sources, microtasks, nextItemId,
    awaited, playerLast>>

EmptyMap == [x \in {} |-> 0]
Drop(f, k) == [x \in DOMAIN f \ {k} |-> f[x]]
Put(f, k, v) == [x \in DOMAIN f \cup {k} |-> IF x = k THEN v ELSE f[x]]

NoAck ==
  [ok |-> FALSE, code |-> "none", retryAfterMs |-> 0, channelCode |-> Null,
   userId |-> 0, msgId |-> 0]
AckError(code, retryAfterMs) ==
  [ok |-> FALSE, code |-> code, retryAfterMs |-> retryAfterMs, channelCode |-> Null,
   userId |-> 0, msgId |-> 0]
AckOk(channelCode, userId, msgId) ==
  [ok |-> TRUE, code |-> "ok", retryAfterMs |-> 0, channelCode |-> channelCode,
   userId |-> userId, msgId |-> msgId]

Event(name, to, channelCode, userId, msgIds) ==
  [event |-> name, to |-> to, channelCode |-> channelCode, userId |-> userId,
   msgIds |-> msgIds]

\* The in-memory maps a handler works on, with the events it has emitted so far.
Mem ==
  [channels |-> channels, socketIndex |-> socketIndex, rooms |-> rooms,
   audioRateLimit |-> audioRateLimit, events |-> <<>>]

\* io.to(room): the connected sockets that have joined the room.
InRoom(m, room) == {x \in Sockets : room \in m.rooms[x]}

removeUserFromChannel(m, s, t) ==
  IF s \notin DOMAIN m.socketIndex THEN m
  ELSE
    LET indexed == m.socketIndex[s]
        code == indexed.channelCode
        uid == indexed.userId
    IN
    IF code \notin DOMAIN m.channels
    THEN [m EXCEPT !.socketIndex = Drop(@, s), !.audioRateLimit = Drop(@, uid)]
    ELSE
      LET cs == m.channels[code] IN
      IF uid \notin DOMAIN cs.users
      THEN [m EXCEPT !.socketIndex = Drop(@, s),
                     !.audioRateLimit = Drop(@, uid),
                     !.channels = IF DOMAIN cs.users = {} THEN Drop(@, code) ELSE @]
      ELSE
        LET users == Drop(cs.users, uid)
            left == [m.rooms EXCEPT ![s] = @ \ {code}]
        IN
        [m EXCEPT
           !.channels = IF DOMAIN users = {} THEN Drop(@, code)
                        ELSE [@ EXCEPT ![code] = [users |-> users, lastActivityAt |-> t]],
           !.socketIndex = Drop(@, s),
           !.audioRateLimit = Drop(@, uid),
           !.rooms = left,
           !.events = Append(@, Event("user:left",
                                      {x \in Sockets : code \in left[x]},
                                      code, uid, <<>>))]

\* channelState was looked up before a possible removeUserFromChannel: when that
\* removal deleted the channel from the map, the user is set on an object the map
\* no longer holds.
attachUserToChannel(m, s, code, nickname, uid, t) ==
  [m EXCEPT
     !.channels =
        IF code \in DOMAIN @
        THEN [@ EXCEPT ![code] =
                [users |-> Put(@.users, uid,
                               [nickname |-> nickname, socketId |-> s,
                                lastActivityAt |-> t]),
                 lastActivityAt |-> t]]
        ELSE @,
     !.socketIndex = Put(@, s, [channelCode |-> code, userId |-> uid]),
     !.rooms = [@ EXCEPT ![s] = @ \cup {code}]]

emitUserJoined(m, code, uid) ==
  [m EXCEPT !.events = Append(@, Event("user:joined", InRoom(m, code), code, uid, <<>>))]

\* generateChannelCode: draws[i] is the i-th value of randomInt(0, 10000).
RECURSIVE generateChannelCodeFrom(_, _, _)
generateChannelCodeFrom(active, draws, attempt) ==
  IF attempt > MAX_CODE_GENERATION_ATTEMPTS THEN Null
  ELSE LET code == PadStart(NumberToString(draws[attempt]), 4, "0") IN
       IF code \notin active THEN code
       ELSE generateChannelCodeFrom(active, draws, attempt + 1)

generateChannelCodeUnchecked(active, draws) ==
  PadStart(NumberToString(draws[1]), 4, "0")

generateChannelCode(active, draws) == generateChannelCodeFrom(active, draws, 1)

(***************************************************************************)
(* DatabaseService.                                                        *)
(***************************************************************************)
HISTORY_LIMIT == 2

upsertChannel(table, code, t) == Put(table, code, [lastActivityAt |-> t])

MessagesOf(table, code) == SelectSeq(table, LAMBDA row : row.channelCode = code)

\* listRecentMessages followed by the handlers' sort by createdAt: the newest
\* HISTORY_LIMIT rows of the channel, oldest first (rows are inserted with
\* non-decreasing created_at).
listRecentMessages(table, code) ==
  LET rows == MessagesOf(table, code) IN
  IF Len(rows) <= HISTORY_LIMIT THEN rows
  ELSE SubSeq(rows, Len(rows) - HISTORY_LIMIT + 1, Len(rows))

(***************************************************************************)
(* Channel handlers.                                                       *)
(***************************************************************************)
\* What a handler leaves behind: the maps, and in `last` its acknowledgement
\* (NoAck when it threw before responding) and the events it emitted.
Commit(m, op, s, input, ack, threw) ==
  /\ channels' = m.channels
  /\ socketIndex' = m.socketIndex
  /\ rooms' = m.rooms
  /\ audioRateLimit' = m.audioRateLimit
  /\ last' = [op |-> op, socket |-> s, input |-> input, ack |-> ack,
              events |-> m.events, threw |-> threw]

isChannelFullOffByOne(channelState) ==
  Cardinality(DOMAIN channelState.users) > MAX_USERS_PER_CHANNEL

isChannelFull(channelState) ==
  Cardinality(DOMAIN channelState.users) >= MAX_USERS_PER_CHANNEL

\* failAt = n: the n-th persistence call of the handler throws (0: none does).
handleCreate(s, payload, draws, failAt) ==
  LET nickname == normalizeNickname(payload.nickname)
      input == [payload |-> payload, draws |-> draws, failAt |-> failAt]
  IN
  IF nickname = Null
  THEN /\ Commit(Mem, "create", s, input, AckError("invalid_payload", 0), FALSE)
       /\ UNCHANGED <<dbChannels, nextUserId>>
  ELSE
    LET channelCode == generateChannelCode(DOMAIN channels, draws) IN
    IF channelCode = Null
    THEN /\ Commit(Mem, "create", s, input, AckError("internal", 0), FALSE)
         /\ UNCHANGED <<dbChannels, nextUserId>>
    ELSE
      LET m1 == IF s \in DOMAIN socketIndex THEN removeUserFromChannel(Mem, s, now) ELSE Mem
          \* getOrCreateChannel -> createChannel
          existing == channelCode \in DOMAIN m1.channels
          m2 == IF existing THEN m1
                ELSE [m1 EXCEPT !.channels =
                        Put(@, channelCode, [users |-> EmptyMap, lastActivityAt |-> now])]
      IN
      IF ~existing /\ dbAvailable /\ failAt = 1
      THEN /\ Commit(m2, "create", s, input, NoAck, TRUE)
           /\ UNCHANGED <<dbChannels, nextUserId>>
      ELSE IF isChannelFull(m2.channels[channelCode])
      THEN /\ Commit(m2, "create", s, input, AckError("channel_full", 0), FALSE)
           /\ dbChannels' = IF ~existing /\ dbAvailable
                            THEN upsertChannel(dbChannels, channelCode, now)
                            ELSE dbChannels
           /\ UNCHANGED nextUserId
      ELSE
        LET uid == nextUserId
            m3 == attachUserToChannel(m2, s, channelCode, nickname, uid, now)
            m4 == emitUserJoined(m3, channelCode, uid)
            history == listRecentMessages(dbMessages, channelCode)
            m5 == IF dbAvailable /\ failAt \notin {2, 3} /\ history # <<>>
                  THEN [m4 EXCEPT !.events =
                          Append(@, Event("audio-history", {s}, channelCode, 0,
                                          [i \in 1..Len(history) |-> history[i].id]))]
                  ELSE m4
        IN
        /\ Commit(m5, "create", s, input, AckOk(channelCode, uid, 0), FALSE)
        /\ dbChannels' = IF dbAvailable /\ (~existing \/ failAt # 2)
                         THEN upsertChannel(dbChannels, channelCode, now)
                         ELSE dbChannels
        /\ nextUserId' = nextUserId + 1

handleJoin(s, payload, failAt) ==
  LET channelCode == IF isValidChannelCode(payload.channelCode)
                     THEN payload.channelCode.s ELSE Null
      nickname == normalizeNickname(payload.nickname)
      input == [payload |-> payload, failAt |-> failAt]
  IN
  IF channelCode = Null \/ nickname = Null
  THEN /\ Commit(Mem, "join", s, input, AckError("invalid_payload", 0), FALSE)
       /\ UNCHANGED nextUserId
  ELSE IF channelCode \notin DOMAIN channels /\ dbAvailable /\ failAt = 1
  THEN \* getChannelByCode throws
       /\ Commit(Mem, "join", s, input, NoAck, TRUE)
       /\ UNCHANGED nextUserId
  ELSE IF channelCode \notin DOMAIN channels
          /\ ~(dbAvailable /\ channelCode \in DOMAIN dbChannels)
  THEN /\ Commit(Mem, "join", s, input, AckError("not_found", 0), FALSE)
       /\ UNCHANGED nextUserId
  ELSE
    LET m1 == IF channelCode \in DOMAIN channels THEN Mem
              ELSE [Mem EXCEPT !.channels =
                      Put(@, channelCode,
                          [users |-> EmptyMap,
                           lastActivityAt |-> dbChannels[channelCode].lastActivityAt])]
    IN
    IF isChannelFull(m1.channels[channelCode])
    THEN /\ Commit(m1, "join", s, input, AckError("channel_full", 0), FALSE)
         /\ UNCHANGED nextUserId
    ELSE
      LET m2 == IF s \in DOMAIN m1.socketIndex
                THEN removeUserFromChannel(m1, s, now) ELSE m1
          uid == nextUserId
          m3 == attachUserToChannel(m2, s, channelCode, nickname, uid, now)
          m4 == emitUserJoined(m3, channelCode, uid)
      IN
      /\ Commit(m4, "join", s, input, AckOk(channelCode, uid, 0), FALSE)
      /\ nextUserId' = nextUserId + 1

handleLeave(s, payload) ==
  IF s \notin DOMAIN socketIndex
  THEN Commit(Mem, "leave", s, [payload |-> payload], AckError("not_found", 0), FALSE)
  ELSE
    LET indexed == socketIndex[s]
        channelCode == IF isValidChannelCode(payload.channelCode)
                       THEN payload.channelCode.s ELSE indexed.channelCode
    IN
    IF channelCode # indexed.channelCode
    THEN Commit(Mem, "leave", s, [payload |-> payload], AckError("invalid_payload", 0), FALSE)
    ELSE IF indexed.channelCode \notin DOMAIN channels
    THEN Commit([Mem EXCEPT !.socketIndex = Drop(@, s)], "leave", s,
                [payload |-> payload], AckError("not_found", 0), FALSE)
    ELSE Commit(removeUserFromChannel(Mem, s, now), "leave", s, [payload |-> payload],
                AckOk(indexed.channelCode, indexed.userId, 0), FALSE)

handleActivity(s, payload) ==
  LET touched ==
        IF s \notin DOMAIN socketIndex THEN Mem
        ELSE
          LET indexed == socketIndex[s]
              channelCode == IF isValidChannelCode(payload.channelCode)
                             THEN payload.channelCode.s ELSE indexed.channelCode
          IN
          IF \/ channelCode # indexed.channelCode
             \/ indexed.channelCode \notin DOMAIN channels
             \/ indexed.userId \notin DOMAIN channels[indexed.channelCode].users
          THEN Mem
          ELSE [Mem EXCEPT !.channels[indexed.channelCode] =
                  [users |-> [@.users EXCEPT ![indexed.userId].lastActivityAt = now],
                   lastActivityAt |-> now]]
  IN Commit(touched, "activity", s, [payload |-> payload], NoAck, FALSE)

\* socket.on('disconnect'): socket.io has already taken the socket out of its rooms.
\* The slot then holds the next connection, which is in no room and has no binding.
handleDisconnect(s) ==
  LET m0 == [Mem EXCEPT !.rooms[s] = {}]
  IN Commit(removeUserFromChannel(m0, s, now), "disconnect", s, <<>>, NoAck, FALSE)

(***************************************************************************)
(* Audio ingestion (handleSendAudioMessage and its helpers).               *)
(***************************************************************************)
MAX_AUDIO_BYTES == 2
MAX_AUDIO_DURATION_MS == 3
AUDIO_RATE_LIMIT_WINDOW_MS == 2
AUDIO_RATE_LIMIT_MAX == 2
MESSAGE_RETENTION == 2

\* A JavaScript number: finite is FALSE for NaN and the infinities.
Num(v) == [t |-> "number", finite |-> TRUE, v |-> v]
NotFinite == [t |-> "number", finite |-> FALSE, v |-> 0]
NonNumber == [t |-> "undefined", finite |-> FALSE, v |-> 0]

UpperCase ==
  <<"A", "B", "C", "D", "E", "F", "G", "H", "I", "J", "K", "L", "M", "N", "O", "P", "Q", "R", "S", "T", "U", "V", "W", "X", "Y", "Z">>
LowerCase ==
  <<"a", "b", "c", "d", "e", "f", "g", "h", "i", "j", "k", "l", "m", "n", "o", "p", "q", "r", "s", "t", "u", "v", "w", "x", "y", "z">>
ToLowerCaseChar(c) ==
  IF \E i \in 1..Len(UpperCase) : UpperCase[i] = c
  THEN LowerCase[CHOOSE i \in 1..Len(UpperCase) : UpperCase[i] = c]
  ELSE c
ToLowerCase(s) == [i \in 1..Len(s) |-> ToLowerCaseChar(s[i])]
StartsWith(s, prefix) ==
  Len(s) >= Len(prefix) /\ SubSeq(s, 1, Len(prefix)) = prefix
\* value.split(sep)[0]
SplitFirst(s, sep) ==
  IF \E i \in 1..Len(s) : s[i] = sep
  THEN SubSeq(s, 1, (CHOOSE i \in 1..Len(s) :
                       s[i] = sep /\ \A j \in 1..(i - 1) : s[j] # sep) - 1)
  ELSE s

AUDIO_PREFIX == <<"a", "u", "d", "i", "o", "/">>
AUDIO_WEBM == <<"a", "u", "d", "i", "o", "/", "w", "e", "b", "m">>
AUDIO_MP4 == <<"a", "u", "d", "i", "o", "/", "m", "p", "4">>
ALLOWED_MIME_TYPES ==
  { <<"a", "u", "d", "i", "o", "/", "w", "e", "b", "m", ";", "c", "o", "d", "e", "c", "s", "=", "o", "p", "u", "s">>,
    AUDIO_WEBM,
    <<"a", "u", "d", "i", "o", "/", "m", "p", "4", ";", "c", "o", "d", "e", "c", "s", "=", "m", "p", "4", "a", ".", "4", "0", ".", "2">>,
    AUDIO_MP4 }

normalizeMimeType(value) ==
  LET base == ToLowerCase(Trim(SplitFirst(value, ";"))) IN
  IF base = AUDIO_WEBM \/ base = AUDIO_MP4 THEN base ELSE Null

isValidPriority(value) == value \in {"routine", "important", "urgent"}

Base64Alphabet ==
  <<"A", "B", "C", "D", "E", "F", "G", "H", "I", "J", "K", "L", "M", "N", "O", "P",
    "Q", "R", "S", "T", "U", "V", "W", "X", "Y", "Z", "a", "b", "c", "d", "e", "f",
    "g", "h", "i", "j", "k", "l", "m", "n", "o", "p", "q", "r", "s", "t", "u", "v",
    "w", "x", "y", "z", "0", "1", "2", "3", "4", "5", "6", "7", "8", "9", "+", "/">>
IsBase64Char(c) == \E i \in 1..Len(Base64Alphabet) : Base64Alphabet[i] = c
Base64Value(c) == (CHOOSE i \in 1..Len(Base64Alphabet) : Base64Alphabet[i] = c) - 1

RECURSIVE StripPadding(_)
\* value.replace(/=+$/, '')
StripPadding(s) ==
  IF s # <<>> /\ s[Len(s)] = "=" THEN StripPadding(SubSeq(s, 1, Len(s) - 1)) ELSE s

\* /^[A-Za-z0-9+\/]+={0,2}$/
MatchesBase64(s) ==
  LET body == StripPadding(s) IN
  /\ Len(body) >= 1
  /\ Len(s) - Len(body) <= 2
  /\ \A i \in 1..Len(body) : IsBase64Char(body[i])

\* estimateBase64Bytes: -1 stands for null.
estimateBase64Bytes(value) ==
  LET trimmed == Trim(value)
      padding == IF Len(trimmed) >= 2 /\ SubSeq(trimmed, Len(trimmed) - 1, Len(trimmed)) = <<"=", "=">>
                 THEN 2
                 ELSE IF trimmed # <<>> /\ trimmed[Len(trimmed)] = "=" THEN 1 ELSE 0
      bytes == ((Len(trimmed) * 3) \div 4) - padding
  IN
  IF Len(trimmed) = 0 \/ Len(trimmed) % 4 # 0 THEN -1
  ELSE IF ~MatchesBase64(trimmed) THEN -1
  ELSE IF bytes < 0 THEN 0 ELSE bytes

\* Buffer.from(value, 'base64'): characters outside the alphabet are skipped and
\* decoding stops at the first padding character; every full group of eight bits
\* gives a byte.
Base64Sextets(value) ==
  LET body == SplitFirst(value, "=")
      kept == SelectSeq(body, IsBase64Char)
  IN [i \in 1..Len(kept) |-> Base64Value(kept[i])]

ByteAt(sx, k) ==
  LET g == 4 * ((k - 1) \div 3)
      j == (k - 1) % 3
  IN
  IF j = 0 THEN sx[g + 1] * 4 + (sx[g + 2] \div 16)
  ELSE IF j = 1 THEN (sx[g + 2] % 16) * 16 + (sx[g + 3] \div 4)
  ELSE (sx[g + 3] % 4) * 64 + sx[g + 4]

BufferFromBase64(value) ==
  LET sx == Base64Sextets(value) IN
  [k \in 1..((Len(sx) * 6) \div 8) |-> ByteAt(sx, k)]

\* buffer.toString('base64')
SextetAt(buffer, i) ==
  LET g == 3 * ((i - 1) \div 4)
      j == (i - 1) % 4
      B(k) == IF k <= Len(buffer) THEN buffer[k] ELSE 0
  IN
  IF j = 0 THEN B(g + 1) \div 4
  ELSE IF j = 1 THEN (B(g + 1) % 4) * 16 + (B(g + 2) \div 16)
  ELSE IF j = 2 THEN (B(g + 2) % 16) * 4 + (B(g + 3) \div 64)
  ELSE B(g + 3) % 64

BufferToBase64(buffer) ==
  LET n == Len(buffer)
      m == (n * 8 + 5) \div 6
  IN [i \in 1..m |-> Base64Alphabet[SextetAt(buffer, i) + 1]]
       \o Repeat("=", (3 - (n % 3)) % 3)

\* decodeBase64Audio: isNull is TRUE where the function returns null.
decodeBase64Audio(value, expectedBytes) ==
  LET buffer == BufferFromBase64(value) IN
  IF Len(buffer) # expectedBytes THEN [isNull |-> TRUE, buffer |-> <<>>]
  ELSE IF StripPadding(BufferToBase64(buffer)) # StripPadding(Trim(value))
  THEN [isNull |-> TRUE, buffer |-> <<>>]
  ELSE [isNull |-> FALSE, buffer |-> buffer]

\* A location value: undefined, or an object with lat, lng and accuracy.
NoLocation == [t |-> "undefined", lat |-> NonNumber, lng |-> NonNumber, accuracy |-> NonNumber]
Location(lat, lng, accuracy) ==
  [t |-> "object", lat |-> lat, lng |-> lng, accuracy |-> accuracy]

normalizeLocation(value) ==
  IF value.t # "object" THEN NoLocation
  ELSE IF value.lat.t # "number" \/ value.lng.t # "number" THEN NoLocation
  ELSE IF ~value.lat.finite \/ ~value.lng.finite THEN NoLocation
  ELSE IF value.accuracy.t # "undefined" /\ value.accuracy.t # "number" THEN NoLocation
  ELSE IF value.accuracy.t # "undefined" /\ ~value.accuracy.finite THEN NoLocation
  ELSE value

consumeAudioRateLimitOneMore(limits, userId, t) ==
  IF userId \notin DOMAIN limits \/ t >= limits[userId].resetAt
  THEN [limits |-> Put(limits, userId,
                       [count |-> 1, resetAt |-> t + AUDIO_RATE_LIMIT_WINDOW_MS]),
        allowed |-> TRUE, retryAfterMs |-> 0]
  ELSE IF limits[userId].count > AUDIO_RATE_LIMIT_MAX
  THEN [limits |-> limits, allowed |-> FALSE,
        retryAfterMs |-> limits[userId].resetAt - t]
  ELSE [limits |-> [limits EXCEPT ![userId].count = @ + 1],
        allowed |-> TRUE, retryAfterMs |-> 0]

\* consumeAudioRateLimit: the rate-limit map afterwards and the verdict.
consumeAudioRateLimit(limits, userId, t) ==
  IF userId \notin DOMAIN limits \/ t >= limits[userId].resetAt
  THEN [limits |-> Put(limits, userId,
                       [count |-> 1, resetAt |-> t + AUDIO_RATE_LIMIT_WINDOW_MS]),
        allowed |-> TRUE, retryAfterMs |-> 0]
  ELSE IF limits[userId].count >= AUDIO_RATE_LIMIT_MAX
  THEN [limits |-> limits, allowed |-> FALSE,
        retryAfterMs |-> IF limits[userId].resetAt - t < 0 THEN 0
                         ELSE limits[userId].resetAt - t]
  ELSE [limits |-> [limits EXCEPT ![userId].count = @ + 1],
        allowed |-> TRUE, retryAfterMs |-> 0]

recordAudioMessageUnchecked(message) == Len(message.payload) > MAX_AUDIO_BYTES

\* DatabaseService.recordAudioMessage: the two checks that throw before the insert.
recordAudioMessageThrows(message) ==
  \/ message.sizeBytes # Len(message.payload)
  \/ Len(message.payload) > MAX_AUDIO_BYTES

\* A prune that keeps the newest MESSAGE_RETENTION rows of the whole table.
pruneMessagesOfAnyChannel(table, code) ==
  IF Len(table) <= MESSAGE_RETENTION THEN table
  ELSE SubSeq(table, Len(table) - MESSAGE_RETENTION + 1, Len(table))

\* pruneMessagesStmt: of the channel's rows only the newest MESSAGE_RETENTION stay
\* (rows are inserted with non-decreasing created_at; the newest are the last).
pruneMessages(table, code) ==
  LET count == Len(MessagesOf(table, code))
      older(i) == Len(MessagesOf(SubSeq(table, i + 1, Len(table)), code))
      keep(i) == table[i].channelCode # code \/ older(i) < MESSAGE_RETENTION
      kept == {i \in 1..Len(table) : keep(i)}
      nth(k) == CHOOSE i \in kept : Cardinality({j \in kept : j < i}) = k - 1
  IN IF count <= MESSAGE_RETENTION THEN table
     ELSE [k \in 1..Cardinality(kept) |-> table[nth(k)]]

\* insertMessageTx: insert, prune, and set the channel row's last_activity_at.
insertMessageTx(table, row) == pruneMessages(Append(table, row), row.channelCode)

touchChannelRow(table, code, t) ==
  IF code \in DOMAIN table THEN [table EXCEPT ![code].lastActivityAt = t] ELSE table

AudioEvent(name, to, outbound) ==
  [event |-> name, to |-> to, channelCode |-> outbound.channelCode, userId |-> 0,
   msgIds |-> <<outbound.id>>, data |-> outbound]

\* ack({ ok: true, data: { id, timestamp } })
AudioAck(outbound) ==
  [ok |-> TRUE, code |-> "ok", retryAfterMs |-> 0, channelCode |-> Null, userId |-> 0,
   msgId |-> outbound.id, timestamp |-> outbound.timestamp]

audioWriteFailsWithoutStore(available, failAt, message) == ~available

\* The store is missing (db null), or upsertChannel (failAt = 1) or
\* recordAudioMessage (failAt = 2, or its own guards) throws.
audioWriteFails(available, failAt, message) ==
  \/ ~available
  \/ failAt \in {1, 2}
  \/ recordAudioMessageThrows(message)

senderIdMatches(userId, userState, payload) ==
  NumberToString(userId) = payload.senderId.s

\* The sender checks of handleSendAudioMessage: the claimed id is the bound user's id
\* and the claimed nickname, normalised, is the bound user's nickname.
senderMatches(userId, userState, payload) ==
  /\ NumberToString(userId) = payload.senderId.s
  /\ normalizeNickname(payload.senderNickname) # Null
  /\ normalizeNickname(payload.senderNickname) = userState.nickname

\* The size check on the estimate, before the caller's binding is looked at.
exceedsAudioBytesDeferred(estimatedBytes) == FALSE

exceedsAudioBytes(estimatedBytes) == estimatedBytes > MAX_AUDIO_BYTES

\* failAt = 1: db.upsertChannel throws; failAt = 2: the insert transaction throws.
handleSendAudioMessage(s, payload, failAt) ==
  LET input == [payload |-> payload, failAt |-> failAt]
      Reject(limits, code, retryAfterMs) ==
        /\ Commit([Mem EXCEPT !.audioRateLimit = limits], "audio", s, input,
                  AckError(code, retryAfterMs), FALSE)
        /\ UNCHANGED <<dbChannels, dbMessages, nextMsgId>>
  IN
  IF \/ ~isValidChannelCode(payload.channelCode)
     \/ payload.senderId.t # "string"
     \/ payload.senderNickname.t # "string"
     \/ payload.audioBase64.t # "string"
     \/ payload.mimeType.t # "string"
     \/ payload.durationMs.t # "number"
     \/ ~payload.durationMs.finite
     \/ ~isValidPriority(payload.priority)
  THEN Reject(audioRateLimit, "invalid_payload", 0)
  ELSE
  LET rawMimeType == ToLowerCase(Trim(payload.mimeType.s))
      normalizedMimeType == normalizeMimeType(rawMimeType)
      estimatedBytes == estimateBase64Bytes(payload.audioBase64.s)
  IN
  IF ~StartsWith(rawMimeType, AUDIO_PREFIX) \/ rawMimeType \notin ALLOWED_MIME_TYPES
  THEN Reject(audioRateLimit, "invalid_payload", 0)
  ELSE IF normalizedMimeType = Null
  THEN Reject(audioRateLimit, "invalid_payload", 0)
  ELSE IF payload.durationMs.v <= 0 \/ payload.durationMs.v > MAX_AUDIO_DURATION_MS
  THEN Reject(audioRateLimit, "duration_exceeded", 0)
  ELSE IF Len(Trim(payload.audioBase64.s)) = 0
  THEN Reject(audioRateLimit, "invalid_payload", 0)
  ELSE IF estimatedBytes = -1
  THEN Reject(audioRateLimit, "invalid_payload", 0)
  ELSE IF exceedsAudioBytes(estimatedBytes)
  THEN Reject(audioRateLimit, "payload_too_large", 0)
  ELSE IF s \notin DOMAIN socketIndex
  THEN Reject(audioRateLimit, "not_found", 0)
  ELSE IF socketIndex[s].channelCode # payload.channelCode.s
  THEN Reject(audioRateLimit, "unauthorized", 0)
  ELSE IF socketIndex[s].channelCode \notin DOMAIN channels
  THEN Reject(audioRateLimit, "not_found", 0)
  ELSE IF socketIndex[s].userId \notin DOMAIN channels[socketIndex[s].channelCode].users
  THEN Reject(audioRateLimit, "not_found", 0)
  ELSE
  LET channelCode == socketIndex[s].channelCode
      userId == socketIndex[s].userId
      userState == channels[channelCode].users[userId]
      location == normalizeLocation(payload.location)
      rateLimit == consumeAudioRateLimit(audioRateLimit, userId, now)
      decoded == decodeBase64Audio(payload.audioBase64.s, estimatedBytes)
  IN
  IF ~senderMatches(userId, userState, payload)
  THEN Reject(audioRateLimit, "unauthorized", 0)
  ELSE IF payload.location.t # "undefined" /\ location.t = "undefined"
  THEN Reject(audioRateLimit, "invalid_payload", 0)
  ELSE IF ~rateLimit.allowed
  THEN Reject(rateLimit.limits, "rate_limited", rateLimit.retryAfterMs)
  ELSE IF decoded.isNull \/ Len(decoded.buffer) = 0
  THEN Reject(rateLimit.limits, "invalid_payload", 0)
  ELSE IF Len(decoded.buffer) > MAX_AUDIO_BYTES
  THEN Reject(rateLimit.limits, "payload_too_large", 0)
  ELSE
  LET outbound == [id |-> nextMsgId, channelCode |-> payload.channelCode.s,
                   senderNickname |-> userState.nickname,
                   audioBase64 |-> payload.audioBase64.s,
                   mimeType |-> normalizedMimeType, priority |-> payload.priority,
                   timestamp |-> now, location |-> location]
      message == [id |-> nextMsgId, channelCode |-> payload.channelCode.s,
                  fromUserId |-> userId, fromNickname |-> userState.nickname,
                  createdAt |-> now, priority |-> payload.priority,
                  mimeType |-> normalizedMimeType, durationMs |-> payload.durationMs.v,
                  sizeBytes |-> Len(decoded.buffer), payload |-> decoded.buffer]
      m1 == [Mem EXCEPT !.audioRateLimit = rateLimit.limits]
  IN
  IF audioWriteFails(dbAvailable, failAt, message)
  THEN /\ Commit(m1, "audio", s, input, AckError("internal", 0), FALSE)
       /\ nextMsgId' = nextMsgId + 1
       /\ dbChannels' = IF dbAvailable /\ failAt # 1
                        THEN upsertChannel(dbChannels, channelCode, now)
                        ELSE dbChannels
       /\ UNCHANGED dbMessages
  ELSE
  LET m2 == [m1 EXCEPT
               !.channels[channelCode] =
                  [users |-> [@.users EXCEPT ![userId].lastActivityAt = now],
                   lastActivityAt |-> now],
               !.events = @ \o << AudioEvent("audio-message", InRoom(m1, channelCode), outbound),
                                  AudioEvent("audio:message", InRoom(m1, channelCode), outbound) >>]
  IN
  /\ Commit(m2, "audio", s, input, AudioAck(outbound), FALSE)
  /\ nextMsgId' = nextMsgId + 1
  /\ dbChannels' = touchChannelRow(upsertChannel(dbChannels, channelCode, now),
                                   channelCode, now)
  /\ dbMessages' = insertMessageTx(dbMessages, message)

(***************************************************************************)
(* Emergency coordinator (createEmergencyService, emergency:broadcast).    *)
(***************************************************************************)
RATE_LIMIT_WINDOW_MS == 2
MIN_MESSAGE_LENGTH == 1
MAX_MESSAGE_LENGTH == 200

normalizeMessage(value) ==
  IF value.t # "string" THEN Null
  ELSE LET trimmed == Trim(value.s) IN
       IF Len(trimmed) < MIN_MESSAGE_LENGTH \/ Len(trimmed) > MAX_MESSAGE_LENGTH
       THEN Null ELSE trimmed

\* deps.getUserContext: TRUE where it returns a context.
hasUserContext(s) ==
  /\ s \in DOMAIN socketIndex
  /\ socketIndex[s].channelCode \in DOMAIN channels
  /\ socketIndex[s].userId \in DOMAIN channels[socketIndex[s].channelCode].users

\* respond: the acknowledgement when the caller passed one, else an emergency:error
\* event to the caller for a failure.
respondEmergency(m, s, hasAck, ack) ==
  IF hasAck \/ ack.ok THEN m
  ELSE [m EXCEPT !.events = Append(@, Event("emergency:error", {s}, Null, 0, <<>>))]

EmergencyAlertToChannel(to, broadcast) ==
  [event |-> "emergency:alert",
   to |-> {x \in to : /\ x \in DOMAIN socketIndex
                      /\ socketIndex[x].channelCode = broadcast.channelCode},
   channelCode |-> broadcast.channelCode,
   userId |-> broadcast.fromUserId, msgIds |-> <<broadcast.id>>, data |-> broadcast]

\* io.emit('emergency:alert', { broadcast })
EmergencyAlert(to, broadcast) ==
  [event |-> "emergency:alert", to |-> to, channelCode |-> broadcast.channelCode,
   userId |-> broadcast.fromUserId, msgIds |-> <<broadcast.id>>, data |-> broadcast]

\* recordEmergency: the insert, then the update of the channel row, each of which may
\* throw (no transaction).
recordEmergency(table, broadcast) == Append(table, broadcast)

\* failAt = 1, 2: the first, the second statement of db.recordEmergency throws inside
\* wrappedAck, which swallows it.
\* The ack field of `last` is the response handed to respond, which reaches the
\* caller as an acknowledgement only when hasAck.
handleBroadcast(s, payload, hasAck, failAt) ==
  LET input == [payload |-> payload, hasAck |-> hasAck, failAt |-> failAt]
      message == normalizeMessage(payload.message)
      Fail(code, retryAfterMs) ==
        /\ Commit(respondEmergency(Mem, s, hasAck, AckError(code, retryAfterMs)),
                  "emergency", s, input, AckError(code, retryAfterMs), FALSE)
        /\ UNCHANGED <<lastBroadcastByUserId, dbChannels, dbEmergency, nextMsgId>>
  IN
  IF message = Null THEN Fail("invalid_payload", 0)
  ELSE IF ~hasUserContext(s) THEN Fail("not_found", 0)
  ELSE
  LET channelCode == socketIndex[s].channelCode
      userId == socketIndex[s].userId
      limited == /\ userId \in DOMAIN lastBroadcastByUserId
                 /\ lastBroadcastByUserId[userId] # 0
                 /\ now - lastBroadcastByUserId[userId] < RATE_LIMIT_WINDOW_MS
  IN
  IF limited
  THEN Fail("rate_limited", RATE_LIMIT_WINDOW_MS - (now - lastBroadcastByUserId[userId]))
  ELSE
  LET broadcast == [id |-> nextMsgId, channelCode |-> channelCode, fromUserId |-> userId,
                    fromNickname |-> channels[channelCode].users[userId].nickname,
                    createdAt |-> now, priority |-> "urgent", message |-> message]
      \* deps.touchActivity, then io.emit to every connected socket
      m1 == [Mem EXCEPT
               !.channels[channelCode] =
                  [users |-> [@.users EXCEPT ![userId].lastActivityAt = now],
                   lastActivityAt |-> now],
               !.events = Append(@, EmergencyAlert(Sockets, broadcast))]
      recorded == hasAck /\ dbAvailable /\ failAt # 1
      touched == recorded /\ failAt # 2
  IN
  /\ Commit(m1, "emergency", s, input, AckOk(channelCode, userId, nextMsgId), FALSE)
  /\ lastBroadcastByUserId' = Put(lastBroadcastByUserId, userId, now)
  /\ nextMsgId' = nextMsgId + 1
  /\ dbEmergency' = IF recorded THEN recordEmergency(dbEmergency, broadcast)
                    ELSE dbEmergency
  /\ dbChannels' = IF touched THEN touchChannelRow(dbChannels, channelCode, now)
                   ELSE dbChannels

(***************************************************************************)
(* Requests the server can receive.                                        *)
(***************************************************************************)
RandomInts == {7, 1234}
GeneratedCodes == {PadStart(NumberToString(n), 4, "0") : n \in RandomInts}
Draws == [1..MAX_CODE_GENERATION_ATTEMPTS -> RandomInts]

NicknameInputs ==
  { Str(<<>>), Str(<<" ">>), Str(<<" ", "A", " ">>), Str(Repeat("n", 24)),
    Str(Repeat("n", 25)), NonString }

ChannelCodeInputs ==
  {Str(c) : c \in GeneratedCodes}
    \cup { Str(<<"9", "9", "9", "9">>), Str(<<"1", "2", "3">>),
           Str(<<"1", "2", "a", "4">>), NonString }

CreatePayloads == [nickname : NicknameInputs]
JoinPayloads == [channelCode : ChannelCodeInputs, nickname : NicknameInputs]
LeavePayloads == [channelCode : ChannelCodeInputs]

\* A request with the values its handler draws (the random channel codes, the
\* persistence call that throws).  A handler that rejects the payload draws nothing.
NoDraws == [i \in 1..MAX_CODE_GENERATION_ATTEMPTS |-> 7]
CreateInputs ==
  { in \in [payload : CreatePayloads, draws : Draws, failAt : 0..3] :
      normalizeNickname(in.payload.nickname) = Null
        => (in.draws = NoDraws /\ in.failAt = 0) }
JoinInputs ==
  { in \in [payload : JoinPayloads, failAt : 0..1] :
      (~isValidChannelCode(in.payload.channelCode)
         \/ normalizeNickname(in.payload.nickname) = Null) => in.failAt = 0 }

\* The requests by which connections become members, for the behaviours whose
\* subject is what members send afterwards.
MemberCreateInputs ==
  { [payload |-> [nickname |-> Str(<<" ", "A", " ">>)], draws |-> NoDraws, failAt |-> 0] }
MemberJoinInputs ==
  { [payload |-> [channelCode |-> Str(<<"0", "0", "0", "7">>), nickname |-> Str(<<"B">>)],
     failAt |-> 0] }

\* send-audio-message payloads: the payload that passes every check for the sender's
\* binding, and the payloads that deviate from it in one field, or in one of the
\* fields that identify the sender and one more.
BindingOf(s) ==
  IF s \in DOMAIN socketIndex THEN socketIndex[s]
  ELSE [channelCode |-> <<"0", "0", "0", "7">>, userId |-> 1]
NicknameOf(s) ==
  IF hasUserContext(s)
  THEN channels[socketIndex[s].channelCode].users[socketIndex[s].userId].nickname
  ELSE <<"A">>

WellFormedAudio(s) ==
  [channelCode |-> Str(BindingOf(s).channelCode),
   senderId |-> Str(NumberToString(BindingOf(s).userId)),
   senderNickname |-> Str(NicknameOf(s)),
   audioBase64 |-> Str(<<"Q", "Q", "=", "=">>),
   mimeType |-> Str(AUDIO_WEBM),
   durationMs |-> Num(1),
   priority |-> "routine",
   location |-> NoLocation]

AudioDeviations(s) ==
  [channelCode |->
     { Str(IF BindingOf(s).channelCode = <<"1", "2", "3", "4">>
           THEN <<"0", "0", "0", "7">> ELSE <<"1", "2", "3", "4">>),
       NonString },
   senderId |-> { Str(NumberToString(BindingOf(s).userId + 1)), NonString },
   senderNickname |->
     { Str(<<" ">> \o NicknameOf(s) \o <<" ">>), Str(ToLowerCase(NicknameOf(s))),
       Str(NicknameOf(s) \o <<"x">>), NonString },
   audioBase64 |->
     { Str(<<"Q", "U", "I", "=">>), Str(<<"Q", "U", "J", "D">>),
       Str(<<"Q", "U", "J", "D", "R", "A", "=", "=">>), Str(<<"Q", "R", "=", "=">>),
       Str(<<" ", "Q", "Q", "=", "=", " ">>), Str(<<" ">>), Str(<<"Q", "Q", "=">>),
       Str(<<"Q", "!", "=", "=">>), NonString },
   mimeType |->
     { Str(<<" ", "A", "u", "d", "i", "o", "/", "W", "e", "b", "M", ";", "c", "o", "d", "e", "c", "s", "=", "o", "p", "u", "s", " ">>),
       Str(<<"a", "u", "d", "i", "o", "/", "o", "g", "g">>),
       Str(<<"a", "u", "d", "i", "o", "/", "w", "e", "b", "m", ";", " ", "c", "o", "d", "e", "c", "s", "=", "o", "p", "u", "s">>),
       Str(<<"v", "i", "d", "e", "o", "/", "w", "e", "b", "m">>),
       NonString },
   durationMs |->
     { Num(0), Num(MAX_AUDIO_DURATION_MS + 1), NotFinite, NonNumber },
   priority |-> {"bogus"},
   location |->
     { Location(Num(1), Num(2), NonNumber), Location(Num(1), NotFinite, NonNumber),
       Location(Num(1), Num(2), NotFinite),
       [t |-> "string", lat |-> NonNumber, lng |-> NonNumber, accuracy |-> NonNumber] }]

AudioFields ==
  { "channelCode", "senderId", "senderNickname", "audioBase64", "mimeType",
    "durationMs", "priority", "location" }
IdentityFields == {"channelCode", "senderId", "senderNickname"}

Deviate(payload, fields, alternatives) ==
  UNION { {[payload EXCEPT ![f] = v] : v \in alternatives[f]} : f \in fields }

\* The second deviation of a payload that deviates in an identifying field.
SecondDeviations(s) ==
  [channelCode |-> {NonString},
   senderId |-> {Str(NumberToString(BindingOf(s).userId + 1))},
   senderNickname |-> {Str(NicknameOf(s) \o <<"x">>)},
   audioBase64 |-> { Str(<<"Q", "U", "J", "D", "R", "A", "=", "=">>),
                     Str(<<"Q", "R", "=", "=">>) },
   mimeType |-> {Str(<<"a", "u", "d", "i", "o", "/", "o", "g", "g">>)},
   durationMs |-> {Num(MAX_AUDIO_DURATION_MS + 1)},
   priority |-> {"bogus"},
   location |-> {Location(Num(1), NotFinite, NonNumber)}]

AudioPayloads(s) ==
  LET once == Deviate(WellFormedAudio(s), AudioFields, AudioDeviations(s)) IN
  {WellFormedAudio(s)} \cup once
    \cup UNION { Deviate(p, AudioFields, AudioDeviations(s)) :
                   p \in Deviate(WellFormedAudio(s), IdentityFields, SecondDeviations(s)) }

AudioInputs(s) ==
  {[payload |-> p, failAt |-> 0] : p \in AudioPayloads(s)}
    \cup {[payload |-> WellFormedAudio(s), failAt |-> f] : f \in 1..2}

\* The payloads that differ in the encoded audio only.
SizedAudioInputs(s) ==
  {[payload |-> p, failAt |-> 0] :
     p \in {WellFormedAudio(s)}
            \cup Deviate(WellFormedAudio(s), {"audioBase64"}, AudioDeviations(s))}
    \cup {[payload |-> WellFormedAudio(s), failAt |-> f] : f \in 1..2}

\* Records handed to DatabaseService.recordAudioMessage by a caller of the store.
AudioRecords ==
  { [id |-> nextMsgId, channelCode |-> <<"0", "0", "0", "7">>, fromUserId |-> 1,
     fromNickname |-> <<"A">>, createdAt |-> now, priority |-> "routine",
     mimeType |-> AUDIO_WEBM, durationMs |-> 1, sizeBytes |-> size, payload |-> bytes] :
      size \in 1..(MAX_AUDIO_BYTES + 1),
      bytes \in {<<65>>, <<65, 66>>, <<65, 66, 67>>} }

EmergencyInputs ==
  { in \in [payload : [message : { Str(<<" ", "S", " ">>), Str(<<" ">>),
                                   Str(Repeat("m", MAX_MESSAGE_LENGTH + 1)), NonString }],
            hasAck : BOOLEAN, failAt : 0..2] :
      normalizeMessage(in.payload.message) = Null => in.failAt = 0 }

NoRequest ==
  [op |-> "none", socket |-> 0, input |-> <<>>, ack |-> NoAck, events |-> <<>>,
   threw |-> FALSE]

\* Handlers run to completion, one request at a time.
Idle == last.op = "none"

ServerInit ==
  /\ channels = EmptyMap
  /\ socketIndex = EmptyMap
  /\ rooms = [s \in Sockets |-> {}]
  /\ audioRateLimit = EmptyMap
  /\ lastBroadcastByUserId = EmptyMap
  /\ dbAvailable \in BOOLEAN
  /\ dbChannels = EmptyMap
  /\ dbMessages = <<>>
  /\ dbEmergency = <<>>
  /\ now = 1
  /\ nextUserId = 1
  /\ nextMsgId = 1
  /\ last = NoRequest

Disconnect(s) ==
  /\ Idle
  /\ handleDisconnect(s)
  /\ UNCHANGED <<lastBroadcastByUserId, dbAvailable, dbChannels, dbMessages,
                 dbEmergency, now, nextUserId, nextMsgId>>
  /\ UNCHANGED <<clientVars, playerVars>>

Create(s, inputs, maxIds) ==
  /\ Idle
  /\ \E in \in inputs : handleCreate(s, in.payload, in.draws, in.failAt)
  /\ nextUserId' <= maxIds + 1
  /\ UNCHANGED <<lastBroadcastByUserId, dbAvailable, dbMessages,
                 dbEmergency, now, nextMsgId>>
  /\ UNCHANGED <<clientVars, playerVars>>

Join(s, inputs, maxIds) ==
  /\ Idle
  /\ \E in \in inputs : handleJoin(s, in.payload, in.failAt)
  /\ nextUserId' <= maxIds + 1
  /\ UNCHANGED <<lastBroadcastByUserId, dbAvailable, dbChannels,
                 dbMessages, dbEmergency, now, nextMsgId>>
  /\ UNCHANGED <<clientVars, playerVars>>

Leave(s) ==
  /\ Idle
  /\ \E payload \in LeavePayloads : handleLeave(s, payload)
  /\ UNCHANGED <<lastBroadcastByUserId, dbAvailable, dbChannels,
                 dbMessages, dbEmergency, now, nextUserId, nextMsgId>>
  /\ UNCHANGED <<clientVars, playerVars>>

Activity(s) ==
  /\ Idle
  /\ \E payload \in LeavePayloads : handleActivity(s, payload)
  /\ UNCHANGED <<lastBroadcastByUserId, dbAvailable, dbChannels,
                 dbMessages, dbEmergency, now, nextUserId, nextMsgId>>
  /\ UNCHANGED <<clientVars, playerVars>>

SendAudio(s, inputs) ==
  /\ Idle
  /\ \E in \in inputs : handleSendAudioMessage(s, in.payload, in.failAt)
  /\ nextMsgId' <= MaxMessages + 1
  /\ UNCHANGED <<lastBroadcastByUserId, dbAvailable, dbEmergency, now, nextUserId>>
  /\ UNCHANGED <<clientVars, playerVars>>

Broadcast(s) ==
  /\ Idle
  /\ \E in \in EmergencyInputs : handleBroadcast(s, in.payload, in.hasAck, in.failAt)
  /\ nextMsgId' <= MaxMessages + 1
  /\ UNCHANGED <<dbAvailable, dbMessages, now, nextUserId>>
  /\ UNCHANGED <<clientVars, playerVars>>

\* A direct call of DatabaseService.recordAudioMessage.
StoreRecord ==
  /\ Idle
  /\ dbAvailable
  /\ nextMsgId <= MaxMessages
  /\ \E message \in AudioRecords :
       IF recordAudioMessageThrows(message)
       THEN /\ last' = [op |-> "record", socket |-> 0, input |-> message, ack |-> NoAck,
                        events |-> <<>>, threw |-> TRUE]
            /\ UNCHANGED <<dbMessages, dbChannels, nextMsgId>>
       ELSE /\ last' = [op |-> "record", socket |-> 0, input |-> message, ack |-> NoAck,
                        events |-> <<>>, threw |-> FALSE]
            /\ dbMessages' = insertMessageTx(dbMessages, message)
            /\ dbChannels' = touchChannelRow(dbChannels, message.channelCode,
                                             message.createdAt)
            /\ nextMsgId' = nextMsgId + 1
  /\ UNCHANGED <<channels, socketIndex, rooms, audioRateLimit, lastBroadcastByUserId,
                 dbAvailable, dbEmergency, now, nextUserId>>
  /\ UNCHANGED <<clientVars, playerVars>>

Tick ==
  /\ Idle
  /\ now < MaxTime
  /\ now' = now + 1
  /\ UNCHANGED <<channels, socketIndex, rooms, audioRateLimit,
                 lastBroadcastByUserId, dbAvailable, dbChannels, dbMessages,
                 dbEmergency, nextUserId, nextMsgId, last>>
  /\ UNCHANGED <<clientVars, playerVars>>

\* The acknowledgement and the events of the handled request leave the server;
\* the event loop takes the next request.
Deliver ==
  /\ ~Idle
  /\ last' = NoRequest
  /\ UNCHANGED <<channels, socketIndex, rooms, audioRateLimit,
                 lastBroadcastByUserId, dbAvailable, dbChannels, dbMessages,
                 dbEmergency, now, nextUserId, nextMsgId>>
  /\ UNCHANGED <<clientVars, playerVars>>

(***************************************************************************)
(* Client connection manager (SocketService): the queue of requests issued *)
(* while the socket is not connected.                                      *)
(***************************************************************************)
MAX_QUEUE_SIZE == 3
MaxRequests == 5
MAX_AUDIO_RETRY_QUEUE == 2
MaxPayloads == 3
MaxDrains == 2

ClientEvents == {"user:activity", "channel:join"}

PendingEmit(id, event, expectAck) == [id |-> id, event |-> event, expectAck |-> expectAck]

enqueueWithoutEviction(q, item) == Append(q, item)

enqueue(q, item) ==
  IF Len(q) >= MAX_QUEUE_SIZE THEN Append(Tail(q), item) ELSE Append(q, item)

\* flushQueue: every queued item goes to socket.emit, first to last; the acknowledged
\* ones through emitWithAckNow.
RECURSIVE flushQueue(_, _)
flushQueue(q, sent) ==
  IF q = <<>> THEN [queue |-> q, transmitted |-> sent]
  ELSE flushQueue(Tail(q), Append(sent, Head(q)))

\* validateAudioPayload, for payloads whose other fields are well formed: the
\* checks of durationMs.
validateAudioPayload(payload) ==
  IF payload.durationMs.t # "number" \/ ~payload.durationMs.finite
     \/ payload.durationMs.v <= 0
  THEN "Invalid audio duration."
  ELSE IF payload.durationMs.v > MAX_AUDIO_DURATION_MS
  THEN "Audio duration exceeds limit."
  ELSE "valid"

queueAudioMessage(q, payload) ==
  IF Len(q) >= MAX_AUDIO_RETRY_QUEUE THEN Append(Tail(q), payload) ELSE Append(q, payload)

\* emitAudioStatus and the value sendAudioMessage returns.
Report(rep, payload, audioStatus) == [rep EXCEPT ![payload.id] = @ \cup {audioStatus}]

AudioEmit(payload) == PendingEmit(payload.id, "send-audio-message", TRUE)

\* How an emitWithAckNow ends: with the server's acknowledgement (ok, code internal,
\* another code) or with the rejection of its timer.
AckOutcomes == {"ok", "internal", "rejected", "timeout"}

\* The client's hands: retry queue, drains and sends in progress, reports so far.
AudioClient ==
  [queue |-> audioRetryQueue, drains |-> drains, reported |-> reported,
   transmitted |-> transmitted, nextDrainId |-> nextDrainId]

\* flushAudioRetryQueue up to its first await.
flushAudioRetryQueue(c, isConnected) ==
  IF ~isConnected \/ c.queue = <<>> THEN c
  ELSE [c EXCEPT !.queue = <<>>,
                 !.drains = Put(@, c.nextDrainId, [pending |-> c.queue]),
                 !.transmitted = Append(@, AudioEmit(Head(c.queue))),
                 !.nextDrainId = @ + 1]

resumeDrainRequeueingRejected(c, d, outcome, isConnected) ==
  LET payload == Head(c.drains[d].pending)
      rest == Tail(c.drains[d].pending)
      handled ==
        CASE outcome = "ok" -> [c EXCEPT !.reported = Report(@, payload, "sent")]
          [] OTHER -> [c EXCEPT !.queue = queueAudioMessage(@, payload),
                                !.reported = Report(@, payload, "queued")]
      ended == [handled EXCEPT !.drains = Drop(@, d)]
  IN
  IF outcome = "timeout" \/ rest = <<>> THEN ended
  ELSE IF ~isConnected
  THEN [ended EXCEPT !.queue = queueAudioMessage(@, Head(rest))]
  ELSE [handled EXCEPT !.drains[d].pending = rest,
                       !.transmitted = Append(@, AudioEmit(Head(rest)))]

\* flushAudioRetryQueue from the end of an await to the next await or to its end.
resumeDrain(c, d, outcome, isConnected) ==
  LET payload == Head(c.drains[d].pending)
      rest == Tail(c.drains[d].pending)
      handled ==
        CASE outcome = "ok" -> [c EXCEPT !.reported = Report(@, payload, "sent")]
          [] outcome = "rejected" -> [c EXCEPT !.reported = Report(@, payload, "failed")]
          [] OTHER -> [c EXCEPT !.queue = queueAudioMessage(@, payload),
                                !.reported = Report(@, payload, "queued")]
      ended == [handled EXCEPT !.drains = Drop(@, d)]
  IN
  IF outcome = "timeout" \/ rest = <<>> THEN ended
  ELSE IF ~isConnected
  THEN [ended EXCEPT !.queue = queueAudioMessage(@, Head(rest))]
  ELSE [handled EXCEPT !.drains[d].pending = rest,
                       !.transmitted = Append(@, AudioEmit(Head(rest)))]

AudioClientCommit(c) ==
  /\ audioRetryQueue' = c.queue
  /\ drains' = c.drains
  /\ reported' = c.reported
  /\ nextDrainId' = c.nextDrainId

(***************************************************************************)
(* Client connection manager: status, reconnect timer, heartbeat, and the  *)
(* acknowledgement waits of the requests (emitWithAckNow).                 *)
(***************************************************************************)
RECONNECT_BASE_DELAY_MS == 500
RECONNECT_MAX_DELAY_MS == 30000
MaxAttempts == 7

\* Math.random() in thousandths.
Randoms == {0, 500, 999}
NoRandom == {500}

RECURSIVE Pow2(_)
Pow2(n) == IF n = 0 THEN 1 ELSE 2 * Pow2(n - 1)
Min(a, b) == IF a <= b THEN a ELSE b

reconnectDelayUncapped(attempt, random) ==
  LET delay == RECONNECT_BASE_DELAY_MS * Pow2(attempt)
  IN (delay * (800 + (400 * random) \div 1000) + 500) \div 1000

\* Math.round(delay * jitter), jitter = 0.8 + Math.random() * 0.4
reconnectDelay(attempt, random) ==
  LET delay == Min(RECONNECT_MAX_DELAY_MS, RECONNECT_BASE_DELAY_MS * Pow2(attempt))
  IN (delay * (800 + (400 * random) \div 1000) + 500) \div 1000

\* The fields of the manager a handler works on.
Manager ==
  [status |-> status, shouldReconnect |-> shouldReconnect,
   reconnectAttempts |-> reconnectAttempts, reconnectTimer |-> reconnectTimer,
   pendingTimers |-> pendingTimers, heartbeatTimer |-> heartbeatTimer,
   quality |-> quality]

ManagerCommit(m) ==
  /\ status' = m.status
  /\ shouldReconnect' = m.shouldReconnect
  /\ reconnectAttempts' = m.reconnectAttempts
  /\ reconnectTimer' = m.reconnectTimer
  /\ pendingTimers' = m.pendingTimers
  /\ heartbeatTimer' = m.heartbeatTimer
  /\ quality' = m.quality

\* setTimeout returns a handle no pending timeout has.
NewTimer(timers) ==
  CHOOSE id \in 1..(Cardinality(timers) + 1) : \A t \in timers : t.id # id

scheduleReconnect(m, random) ==
  IF m.reconnectTimer # 0 THEN m
  ELSE LET id == NewTimer(m.pendingTimers) IN
       [m EXCEPT !.reconnectTimer = id,
                 !.pendingTimers =
                    @ \cup {[id |-> id, attempt |-> m.reconnectAttempts,
                             delay |-> reconnectDelay(m.reconnectAttempts, random)]}]

clearReconnectTimerFieldOnly(m) == [m EXCEPT !.reconnectTimer = 0]

clearReconnectTimer(m) ==
  IF m.reconnectTimer = 0 THEN m
  ELSE [m EXCEPT !.pendingTimers = {t \in @ : t.id # m.reconnectTimer},
                 !.reconnectTimer = 0]

startHeartbeat(m) == [m EXCEPT !.heartbeatTimer = TRUE]

stopHeartbeatNever(m) == m

stopHeartbeat(m) == [m EXCEPT !.heartbeatTimer = FALSE]

NoSample == [quality |-> "none", latencyMs |-> Null]
Offline == [quality |-> "offline", latencyMs |-> Null]

computeQuality(latencyMs) ==
  IF latencyMs <= 200 THEN "good"
  ELSE IF latencyMs <= 500 THEN "ok"
  ELSE "poor"

\* The time from a heartbeat's emit to its acknowledgement, in ms.
Latencies == {0, 200, 201, 500, 501}

\* The events the server registers a handler for that answers through the
\* acknowledgement callback.
AcknowledgedEvents ==
  {"channel:create", "channel:join", "channel:leave", "send-audio-message",
   "audio:send", "emergency:broadcast"}

\* The handlers of 'disconnect' and of 'connect_error'.
onSocketDown(m, random) ==
  LET down == stopHeartbeat([m EXCEPT !.status = "disconnected", !.quality = Offline])
  IN IF down.shouldReconnect THEN scheduleReconnect(down, random) ELSE down

\* emitWithAckNow: the promise's state, its timer and the callback given to socket.emit.
NewWait(event) == [event |-> event, settled |-> FALSE, timer |-> TRUE, acked |-> FALSE]

RECURSIVE awaitAcks(_, _)
awaitAcks(ws, items) ==
  IF items = <<>> THEN ws
  ELSE awaitAcks(IF Head(items).expectAck
                 THEN Put(ws, Head(items).id, NewWait(Head(items).event))
                 ELSE ws,
                 Tail(items))

\* A wait with the promise it settles.
Awaiting(id) == [wait |-> waits[id], promise |-> promises[id]]

onAckUnguarded(r) ==
  [wait |-> [r.wait EXCEPT !.settled = TRUE, !.timer = FALSE, !.acked = TRUE],
   promise |-> Append(r.promise, "resolved")]

\* The callback of socket.emit: nothing when the wait is settled; else it marks the
\* wait settled, clears its timeout and resolves.
onAck(r) ==
  IF r.wait.settled THEN [r EXCEPT !.wait.acked = TRUE]
  ELSE [wait |-> [r.wait EXCEPT !.settled = TRUE, !.timer = FALSE, !.acked = TRUE],
        promise |-> Append(r.promise, "resolved")]

\* The callback of the wait's setTimeout: nothing when the wait is settled; else it
\* marks the wait settled and rejects with 'Ack timeout.'.
onAckTimeout(r) ==
  IF r.wait.settled THEN [r EXCEPT !.wait.timer = FALSE]
  ELSE [wait |-> [r.wait EXCEPT !.settled = TRUE, !.timer = FALSE],
        promise |-> Append(r.promise, "rejected")]

ClientInit ==
  /\ connected = FALSE
  /\ status = "disconnected"
  /\ shouldReconnect = FALSE
  /\ reconnectAttempts = 0
  /\ reconnectTimer = 0
  /\ pendingTimers = {}
  /\ heartbeatTimer = FALSE
  /\ attempting = FALSE
  /\ waits = EmptyMap
  /\ promises = EmptyMap
  /\ quality = NoSample
  /\ queue = <<>>
  /\ transmitted = <<>>
  /\ issued = 0
  /\ audioRetryQueue = <<>>
  /\ drains = EmptyMap
  /\ sending = {}
  /\ reported = [id \in 1..MaxPayloads |-> {}]
  /\ nextPayloadId = 1
  /\ nextDrainId = 1

\* emit(event, payload)
emit(event) ==
  /\ issued < MaxRequests
  /\ issued' = issued + 1
  /\ IF ~connected
     THEN /\ queue' = enqueue(queue, PendingEmit(issued + 1, event, FALSE))
          /\ UNCHANGED transmitted
     ELSE /\ transmitted' = Append(transmitted, PendingEmit(issued + 1, event, FALSE))
          /\ UNCHANGED queue
  /\ UNCHANGED <<connected, audioClientVars, managerVars, serverVars, playerVars>>

\* emitWithAck(event, payload, timeoutMs): the promise of the request is pending; a
\* request issued while connected goes through emitWithAckNow at once.
emitWithAck(event) ==
  /\ issued < MaxRequests
  /\ issued' = issued + 1
  /\ promises' = Put(promises, issued + 1, <<>>)
  /\ IF ~connected
     THEN /\ queue' = enqueue(queue, PendingEmit(issued + 1, event, TRUE))
          /\ UNCHANGED <<transmitted, waits>>
     ELSE /\ transmitted' = Append(transmitted, PendingEmit(issued + 1, event, TRUE))
          /\ waits' = Put(waits, issued + 1, NewWait(event))
          /\ UNCHANGED queue
  /\ UNCHANGED <<connected, audioClientVars, status, shouldReconnect, reconnectAttempts,
                 reconnectTimer, pendingTimers, heartbeatTimer, attempting, quality,
                 serverVars, playerVars>>

\* connect()
connect ==
  /\ ~connected
  /\ ManagerCommit([Manager EXCEPT !.shouldReconnect = TRUE, !.status = "connecting"])
  /\ attempting' = TRUE
  /\ UNCHANGED <<connected, queue, transmitted, issued, audioClientVars, waits, promises,
                 serverVars, playerVars>>

\* disconnect(): socket.disconnect() runs the handler of 'disconnect' at once when
\* the socket was connected, and ends a connection attempt in progress.
disconnect ==
  /\ LET m == stopHeartbeat(clearReconnectTimer([Manager EXCEPT !.shouldReconnect = FALSE]))
         down == [m EXCEPT !.status = "disconnected"]
         offline == [down EXCEPT !.quality = Offline]
     IN ManagerCommit(IF connected THEN onSocketDown(offline, 0) ELSE offline)
  /\ connected' = FALSE
  /\ attempting' = FALSE
  /\ UNCHANGED <<queue, transmitted, issued, audioClientVars, waits, promises,
                 serverVars, playerVars>>

\* socket.on('connect')
OnConnect ==
  /\ attempting
  /\ ~connected
  /\ connected' = TRUE
  /\ attempting' = FALSE
  /\ ManagerCommit(startHeartbeat(
        [clearReconnectTimer([Manager EXCEPT !.reconnectAttempts = 0])
           EXCEPT !.status = "connected"]))
  /\ queue' = flushQueue(queue, transmitted).queue
  /\ waits' = awaitAcks(waits, queue)
  /\ LET flushed == flushQueue(queue, transmitted).transmitted
         c == flushAudioRetryQueue([AudioClient EXCEPT !.transmitted = flushed], TRUE)
     IN /\ AudioClientCommit(c)
        /\ transmitted' = c.transmitted
        /\ nextDrainId' <= MaxDrains + 1
  /\ UNCHANGED <<issued, sending, nextPayloadId, promises, serverVars, playerVars>>

\* socket.on('disconnect'), for a connection that drops.
OnDisconnect(randoms) ==
  /\ connected
  /\ connected' = FALSE
  /\ \E random \in randoms : ManagerCommit(onSocketDown(Manager, random))
  /\ UNCHANGED <<queue, transmitted, issued, audioClientVars, attempting, waits, promises,
                 serverVars, playerVars>>

\* socket.on('connect_error'), whenever the socket is not connected.
OnConnectError(randoms) ==
  /\ ~connected
  /\ attempting' = FALSE
  /\ \E random \in randoms : ManagerCommit(onSocketDown(Manager, random))
  /\ UNCHANGED <<connected, queue, transmitted, issued, audioClientVars, waits, promises,
                 serverVars, playerVars>>

\* The callback of the reconnect timeout.
ReconnectFired(t) ==
  /\ t \in pendingTimers
  /\ reconnectAttempts < MaxAttempts
  /\ LET fired == [Manager EXCEPT !.pendingTimers = @ \ {t},
                                  !.reconnectTimer = 0,
                                  !.reconnectAttempts = @ + 1]
     IN IF shouldReconnect
        THEN /\ ManagerCommit([fired EXCEPT !.status = "connecting"])
             /\ attempting' = (attempting \/ ~connected)
        ELSE /\ ManagerCommit(fired)
             /\ UNCHANGED attempting
  /\ UNCHANGED <<connected, queue, transmitted, issued, audioClientVars, waits, promises,
                 serverVars, playerVars>>

\* The callback of the heartbeat interval.
HeartbeatTick ==
  /\ heartbeatTimer
  /\ connected
  /\ issued < MaxRequests
  /\ issued' = issued + 1
  /\ promises' = Put(promises, issued + 1, <<>>)
  /\ transmitted' = Append(transmitted, PendingEmit(issued + 1, "client:heartbeat", TRUE))
  /\ waits' = Put(waits, issued + 1, NewWait("client:heartbeat"))
  /\ UNCHANGED <<connected, queue, audioClientVars, status, shouldReconnect,
                 reconnectAttempts, reconnectTimer, pendingTimers, heartbeatTimer,
                 attempting, quality, serverVars, playerVars>>

\* The server's acknowledgement of a transmitted request arrives, over a live
\* connection, at most once, when the server has a handler for the event that
\* answers.  The .then of a heartbeat gives the sample of its latency.
AckArrives(id) ==
  /\ connected
  /\ id \in DOMAIN waits
  /\ ~waits[id].acked
  /\ waits[id].event \in AcknowledgedEvents
  /\ waits' = [waits EXCEPT ![id] = onAck(Awaiting(id)).wait]
  /\ promises' = [promises EXCEPT ![id] = onAck(Awaiting(id)).promise]
  /\ IF waits[id].event = "client:heartbeat" /\ ~waits[id].settled
     THEN \E latencyMs \in Latencies :
            quality' = [quality |-> computeQuality(latencyMs), latencyMs |-> Num(latencyMs)]
     ELSE UNCHANGED quality
  /\ UNCHANGED <<connected, queue, transmitted, issued, audioClientVars, status,
                 shouldReconnect, reconnectAttempts, reconnectTimer, pendingTimers,
                 heartbeatTimer, attempting, serverVars, playerVars>>

\* The timeout of a wait elapses.
AckTimeout(id) ==
  /\ id \in DOMAIN waits
  /\ waits[id].timer
  /\ waits' = [waits EXCEPT ![id] = onAckTimeout(Awaiting(id)).wait]
  /\ promises' = [promises EXCEPT ![id] = onAckTimeout(Awaiting(id)).promise]
  /\ quality' = IF waits[id].event = "client:heartbeat" /\ ~waits[id].settled
                THEN [quality |-> "poor", latencyMs |-> Null]
                ELSE quality
  /\ UNCHANGED <<connected, queue, transmitted, issued, audioClientVars, status,
                 shouldReconnect, reconnectAttempts, reconnectTimer, pendingTimers,
                 heartbeatTimer, attempting, serverVars, playerVars>>

\* sendAudioMessage(payload) up to its return or its await.
sendAudioMessage(durationMs) ==
  LET payload == [id |-> nextPayloadId, durationMs |-> durationMs] IN
  /\ nextPayloadId <= MaxPayloads
  /\ nextPayloadId' = nextPayloadId + 1
  /\ IF validateAudioPayload(payload) # "valid"
     THEN /\ reported' = Report(reported, payload, "failed")
          /\ UNCHANGED <<audioRetryQueue, sending, transmitted>>
     ELSE IF ~connected
     THEN /\ audioRetryQueue' = queueAudioMessage(audioRetryQueue, payload)
          /\ reported' = Report(reported, payload, "queued")
          /\ UNCHANGED <<sending, transmitted>>
     ELSE /\ sending' = sending \cup {payload}
          /\ transmitted' = Append(transmitted, AudioEmit(payload))
          /\ UNCHANGED <<audioRetryQueue, reported>>
  /\ UNCHANGED <<connected, queue, issued, drains, nextDrainId, managerVars,
                 serverVars, playerVars>>

\* sendAudioMessage after its await.  An acknowledgement arrives over a live
\* connection only.
SendSettled(payload, outcome) ==
  /\ payload \in sending
  /\ outcome # "timeout" => connected
  /\ sending' = sending \ {payload}
  /\ CASE outcome = "ok" ->
            /\ reported' = Report(reported, payload, "sent")
            /\ UNCHANGED audioRetryQueue
       [] outcome = "rejected" ->
            /\ reported' = Report(reported, payload, "failed")
            /\ UNCHANGED audioRetryQueue
       [] OTHER ->
            /\ audioRetryQueue' = queueAudioMessage(audioRetryQueue, payload)
            /\ reported' = Report(reported, payload, "queued")
  /\ UNCHANGED <<connected, queue, transmitted, issued, drains, nextPayloadId,
                 nextDrainId, managerVars, serverVars, playerVars>>

\* flushAudioRetryQueue after an await.
DrainSettled(d, outcome) ==
  /\ d \in DOMAIN drains
  /\ outcome # "timeout" => connected
  /\ LET c == resumeDrain(AudioClient, d, outcome, connected)
     IN /\ AudioClientCommit(c)
        /\ transmitted' = c.transmitted
  /\ UNCHANGED <<connected, queue, issued, sending, nextPayloadId, managerVars,
                 serverVars, playerVars>>

(***************************************************************************)
(* Playback scheduler (useAudioPlayer).                                    *)
(***************************************************************************)
MaxItems == 5

Priorities == {"routine", "important", "urgent"}
NoCurrent == [token |-> 0, priority |-> "none", id |-> 0, kind |-> "none"]
NoPlayerStep == [op |-> "none", item |-> [id |-> 0, priority |-> "none", kind |-> "none"],
                 options |-> [allowInterrupt |-> TRUE, respectPriority |-> TRUE],
                 placed |-> <<>>]

\* The refs a call works on.
Player ==
  [queue |-> queueRef, current |-> currentRef, token |-> playbackTokenRef,
   decoding |-> decoding]

\* stopCurrent: the stopped source's onended is still to fire.
stopCurrent(p) ==
  IF p.current = NoCurrent THEN p
  ELSE [p EXCEPT !.token = @ + 1, !.current = NoCurrent]

\* playNext up to its first await: the head of the queue is taken and its decode
\* starts under a new token.
playNext(p) ==
  IF p.current # NoCurrent \/ p.queue = <<>> THEN p
  ELSE [p EXCEPT !.queue = Tail(@),
                 !.token = @ + 1,
                 !.decoding = @ \cup {[item |-> Head(p.queue), token |-> p.token + 1]}]

placeByPriority(q, item, respectPriority) ==
  IF item.priority = "urgent" THEN <<item>> \o q
  ELSE IF item.priority = "important" /\ \E i \in 1..Len(q) : q[i].priority = "routine"
  THEN LET index == CHOOSE i \in 1..Len(q) :
                      q[i].priority = "routine" /\ \A j \in 1..(i - 1) : q[j].priority # "routine"
       IN SubSeq(q, 1, index - 1) \o <<item>> \o SubSeq(q, index, Len(q))
  ELSE Append(q, item)

placeAtTail(q, item, respectPriority) == Append(q, item)

\* enqueueItem, lines 292-308: where the item goes when nothing is interrupted.
placeItem(q, item, respectPriority) ==
  IF ~respectPriority THEN Append(q, item)
  ELSE IF item.priority = "urgent" THEN <<item>> \o q
  ELSE IF item.priority = "important" /\ \E i \in 1..Len(q) : q[i].priority = "routine"
  THEN LET index == CHOOSE i \in 1..Len(q) :
                      q[i].priority = "routine" /\ \A j \in 1..(i - 1) : q[j].priority # "routine"
       IN SubSeq(q, 1, index - 1) \o <<item>> \o SubSeq(q, index, Len(q))
  ELSE Append(q, item)

PlayerCommit(p) ==
  /\ queueRef' = p.queue
  /\ currentRef' = p.current
  /\ playbackTokenRef' = p.token
  /\ decoding' = p.decoding

PlayerInit ==
  /\ queueRef = <<>>
  /\ currentRef = NoCurrent
  /\ playbackTokenRef = 0
  /\ decoding = {}
  /\ sources = {}
  /\ microtasks = <<>>
  /\ nextItemId = 1
  /\ awaited = 0
  /\ playerLast = NoPlayerStep

\* enqueueItem(item, options)
enqueueItem(priority, options) ==
  LET item == [id |-> nextItemId, priority |-> priority, kind |-> "blob"] IN
  /\ nextItemId <= MaxItems
  /\ nextItemId' = nextItemId + 1
  /\ IF currentRef # NoCurrent /\ options.allowInterrupt /\ priority = "urgent"
     THEN /\ PlayerCommit(stopCurrent(Player))
          /\ microtasks' = Append(microtasks, [item |-> item, options |-> options])
          /\ awaited' = IF currentRef.priority = "routine" THEN item.id ELSE awaited
          /\ playerLast' = [op |-> "enqueue", item |-> item, options |-> options,
                            placed |-> <<>>]
     ELSE LET placed == placeItem(queueRef, item, options.respectPriority) IN
          /\ PlayerCommit(playNext([Player EXCEPT !.queue = placed]))
          /\ playerLast' = [op |-> "enqueue", item |-> item, options |-> options,
                            placed |-> placed]
          /\ UNCHANGED <<microtasks, awaited>>
  /\ UNCHANGED <<sources, serverVars, clientVars>>

\* The continuation of stopCurrent().then(...) in enqueueItem: it runs when the
\* running task has returned, before any other task.
InterruptContinuation ==
  /\ microtasks # <<>>
  /\ LET item == Head(microtasks).item
         placed == <<item>> \o queueRef
     IN /\ PlayerCommit(playNext([Player EXCEPT !.queue = placed]))
        /\ playerLast' = [op |-> "interrupt", item |-> item,
                          options |-> Head(microtasks).options, placed |-> placed]
  /\ microtasks' = Tail(microtasks)
  /\ UNCHANGED <<sources, nextItemId, awaited, serverVars, clientVars>>

\* playNext after its awaits: the decode of an item ends, well or with an error.
DecodeDone(d, ok) ==
  /\ microtasks = <<>>
  /\ d \in decoding
  /\ IF ~ok
     THEN /\ PlayerCommit(playNext([Player EXCEPT !.decoding = @ \ {d}]))
          /\ awaited' = IF awaited = d.item.id THEN 0 ELSE awaited
          /\ UNCHANGED sources
     ELSE IF d.token # playbackTokenRef
     THEN /\ PlayerCommit([Player EXCEPT !.decoding = @ \ {d}])
          /\ UNCHANGED <<sources, awaited>>
     ELSE /\ PlayerCommit([Player EXCEPT
                             !.decoding = @ \ {d},
                             !.current = [token |-> d.token, priority |-> d.item.priority,
                                          id |-> d.item.id, kind |-> d.item.kind]])
          /\ sources' = sources \cup {d.token}
          /\ awaited' = IF awaited = d.item.id THEN 0 ELSE awaited
  /\ playerLast' = [NoPlayerStep EXCEPT !.op = IF ok THEN "decoded" ELSE "decodeFailed",
                                        !.item = d.item]
  /\ UNCHANGED <<microtasks, nextItemId, serverVars, clientVars>>

onendedUnguarded(p, token) == playNext([p EXCEPT !.current = NoCurrent])

\* The body of source.onended for the source started under token.
onended(p, token) ==
  IF p.current.token # token THEN p
  ELSE playNext([p EXCEPT !.current = NoCurrent])

\* source.onended, for a source that played to its end or was stopped.
Ended(token) ==
  /\ microtasks = <<>>
  /\ token \in sources
  /\ sources' = sources \ {token}
  /\ PlayerCommit(onended(Player, token))
  /\ playerLast' = [NoPlayerStep EXCEPT !.op = "ended"]
  /\ UNCHANGED <<microtasks, nextItemId, awaited, serverVars, clientVars>>

stopAll ==
  /\ PlayerCommit(stopCurrent([Player EXCEPT !.queue = <<>>]))
  /\ awaited' = 0
  /\ playerLast' = [NoPlayerStep EXCEPT !.op = "stopAll"]
  /\ UNCHANGED <<sources, microtasks, nextItemId, serverVars, clientVars>>

\* The options enqueueItem takes when it is given none.
DefaultOptions == [allowInterrupt |-> TRUE, respectPriority |-> TRUE]

HistoryWithoutOptions == DefaultOptions

\* The options the audio-history handler gives with every replayed message.
HistoryOptions == [allowInterrupt |-> FALSE, respectPriority |-> FALSE]

MaxHistory == 2

\* The priorities of the messages of one audio-history event, oldest first.
HistoryBatches == UNION {[1..n -> Priorities] : n \in 1..MaxHistory}

\* One call of enqueueItem on the refs p; p.micro holds the continuations not yet
\* run.
enqueueStep(p, item, options) ==
  IF p.current # NoCurrent /\ options.allowInterrupt /\ item.priority = "urgent"
  THEN [stopCurrent(p) EXCEPT !.micro = Append(@, [item |-> item, options |-> options])]
  ELSE playNext([p EXCEPT !.queue = placeItem(@, item, options.respectPriority)])

\* payload.messages.forEach of the audio-history handler.
RECURSIVE replay(_, _)
replay(p, items) ==
  IF items = <<>> THEN p
  ELSE replay(enqueueStep(p, Head(items), HistoryOptions), Tail(items))

\* The audio-history event: every message is enqueued in the order of the payload,
\* within one task.
OnAudioHistory(priorities) ==
  LET items == [i \in 1..Len(priorities) |->
                  [id |-> nextItemId + i - 1, priority |-> priorities[i],
                   kind |-> "blob"]]
      p == replay([queue |-> queueRef, current |-> currentRef,
                   token |-> playbackTokenRef, decoding |-> decoding,
                   micro |-> microtasks], items)
  IN /\ nextItemId + Len(priorities) - 1 <= MaxItems
     /\ nextItemId' = nextItemId + Len(priorities)
     /\ PlayerCommit(p)
     /\ microtasks' = p.micro
     /\ playerLast' = [NoPlayerStep EXCEPT !.op = "history", !.options = HistoryOptions,
                                           !.placed = items]
     /\ UNCHANGED <<sources, awaited, serverVars, clientVars>>

\* playEmergencyTone on the refs p: the tone is enqueued as urgent, with no options.
playEmergencyTone(p, id) ==
  enqueueStep(p, [id |-> id, priority |-> "urgent", kind |-> "sos"], DefaultOptions)

\* The emergency:alert event with a broadcast in its payload: interruptAudio is
\* stopAll and playSosTone is playEmergencyTone, called one after the other.
OnEmergencyAlert ==
  LET stopped == stopCurrent([queue |-> <<>>, current |-> currentRef,
                              token |-> playbackTokenRef, decoding |-> decoding,
                              micro |-> microtasks])
      p == playEmergencyTone(stopped, nextItemId)
  IN /\ nextItemId <= MaxItems
     /\ nextItemId' = nextItemId + 1
     /\ PlayerCommit(p)
     /\ microtasks' = p.micro
     /\ awaited' = 0
     /\ playerLast' = [NoPlayerStep EXCEPT
                         !.op = "alert",
                         !.item = [id |-> nextItemId, priority |-> "urgent", kind |-> "sos"]]
     /\ UNCHANGED <<sources, serverVars, clientVars>>

(***************************************************************************)
(* Specifications.                                                         *)
(***************************************************************************)
vars == <<serverVars, clientVars, playerVars>>

Init == ServerInit /\ ClientInit /\ PlayerInit

SessionNext ==
  \/ \E s \in Sockets :
       \/ Disconnect(s)
       \/ Create(s, CreateInputs, MaxUserIds)
       \/ Join(s, JoinInputs, MaxUserIds)
       \/ Leave(s)
       \/ Activity(s)
  \/ Deliver

SpecSession == Init /\ [][SessionNext]_vars

AudioNext ==
  \/ \E s \in Senders :
       \/ Create(s, MemberCreateInputs, MaxSenderIds)
       \/ Join(s, MemberJoinInputs, MaxSenderIds)
       \/ SendAudio(s, AudioInputs(s))
  \/ Tick
  \/ Deliver

SpecAudio == Init /\ [][AudioNext]_vars

StoreNext ==
  \/ \E s \in Senders :
       \/ Create(s, MemberCreateInputs, MaxSenderIds)
       \/ Join(s, MemberJoinInputs, MaxSenderIds)
       \/ SendAudio(s, SizedAudioInputs(s))
  \/ StoreRecord
  \/ Tick
  \/ Deliver

SpecStore == Init /\ [][StoreNext]_vars

EmergencyNext ==
  \/ \E s \in Senders :
       \/ Disconnect(s)
       \/ Create(s, MemberCreateInputs, MaxSenderIds)
       \/ Join(s, MemberJoinInputs, MaxSenderIds)
       \/ Broadcast(s)
  \/ Tick
  \/ Deliver

SpecEmergency == Init /\ [][EmergencyNext]_vars

ClientNext ==
  \/ \E event \in ClientEvents : emit(event) \/ emitWithAck(event)
  \/ connect
  \/ OnConnect
  \/ OnDisconnect(NoRandom)

SpecClient == Init /\ [][ClientNext]_vars

AudioDurations == {Num(1), Num(0), Num(MAX_AUDIO_DURATION_MS + 1), NotFinite}

ClientAudioNext ==
  \/ \E durationMs \in AudioDurations : sendAudioMessage(durationMs)
  \/ \E payload \in sending : \E outcome \in AckOutcomes : SendSettled(payload, outcome)
  \/ \E d \in DOMAIN drains : \E outcome \in AckOutcomes : DrainSettled(d, outcome)
  \/ connect
  \/ disconnect
  \/ OnConnect
  \/ OnDisconnect(NoRandom)

SpecClientAudio == Init /\ [][ClientAudioNext]_vars

PlayerNext ==
  \/ \E priority \in Priorities :
       \E options \in [allowInterrupt : BOOLEAN, respectPriority : BOOLEAN] :
         enqueueItem(priority, options)
  \/ InterruptContinuation
  \/ \E d \in decoding : \E ok \in BOOLEAN : DecodeDone(d, ok)
  \/ \E token \in sources : Ended(token)
  \/ stopAll

SpecPlayer == Init /\ [][PlayerNext]_vars

PlaybackNext ==
  \/ PlayerNext
  \/ \E priorities \in HistoryBatches : OnAudioHistory(priorities)
  \/ OnEmergencyAlert

SpecPlayback == Init /\ [][PlaybackNext]_vars

(***************************************************************************)
(* Properties of the channel session authority.                           *)
(***************************************************************************)
FormatCode(n) == PadStart(NumberToString(n), 4, "0")
WellFormedCreate(input) == normalizeNickname(input.payload.nickname) # Null
WellFormedJoin(input) ==
  /\ isValidChannelCode(input.payload.channelCode)
  /\ normalizeNickname(input.payload.nickname) # Null
MemoryUnchanged ==
  /\ channels' = channels
  /\ socketIndex' = socketIndex
  /\ rooms' = rooms
  /\ audioRateLimit' = audioRateLimit

\* C1: a well-formed join request (its payload passes validation) naming a channel
\* that has MAX_USERS_PER_CHANNEL members is answered channel_full, emits nothing
\* and leaves every channel, the caller's binding and the rooms as they were; and
\* no active channel ever has more than MAX_USERS_PER_CHANNEL members.
C1_FullChannelRejectsJoin ==
  /\ [](\A c \in DOMAIN channels :
          Cardinality(DOMAIN channels[c].users) <= MAX_USERS_PER_CHANNEL)
  /\ [][ ( /\ Idle
           /\ last'.op = "join"
           /\ WellFormedJoin(last'.input)
           /\ last'.input.payload.channelCode.s \in DOMAIN channels
           /\ Cardinality(DOMAIN channels[last'.input.payload.channelCode.s].users)
                = MAX_USERS_PER_CHANNEL )
         => ( /\ last'.ack.code = "channel_full"
              /\ last'.events = <<>>
              /\ MemoryUnchanged
              /\ nextUserId' = nextUserId ) ]_vars

\* C1 witness: a connection bound to another channel was refused by a full channel.
C1_Witness ==
  /\ last.op = "join"
  /\ last.ack.code = "channel_full"
  /\ last.socket \in DOMAIN socketIndex
  /\ socketIndex[last.socket].channelCode # last.input.payload.channelCode.s
  /\ socketIndex[last.socket].channelCode \in DOMAIN channels
  /\ Cardinality(DOMAIN channels[last.input.payload.channelCode.s].users)
       = MAX_USERS_PER_CHANNEL

\* C8: a successful create returns a code of exactly four decimal digits that was
\* not the code of an active channel when the request arrived; the new channel
\* holds the caller's new user and no one else, and the caller is bound to it.  When
\* every attempt of generateChannelCode draws an active code, a create with a valid
\* nickname is answered internal and changes nothing.
C8_CreateAllocatesFreshCode ==
  /\ [][ (Idle /\ last'.op = "create" /\ last'.ack.ok)
         => LET code == last'.ack.channelCode
                uid == last'.ack.userId
            IN /\ Len(code) = 4
               /\ \A i \in 1..Len(code) : code[i] \in Digit
               /\ code \notin DOMAIN channels
               /\ code \in DOMAIN channels'
               /\ DOMAIN channels'[code].users = {uid}
               /\ channels'[code].users[uid].socketId = last'.socket
               /\ socketIndex'[last'.socket] = [channelCode |-> code, userId |-> uid] ]_vars
  /\ [][ ( /\ Idle
           /\ last'.op = "create"
           /\ WellFormedCreate(last'.input)
           /\ \A i \in 1..MAX_CODE_GENERATION_ATTEMPTS :
                FormatCode(last'.input.draws[i]) \in DOMAIN channels )
         => (last'.ack.code = "internal" /\ MemoryUnchanged) ]_vars

\* C8 witness: a create succeeded although its first draw was the code of a channel
\* that is active.
C8_Witness ==
  /\ last.op = "create"
  /\ last.ack.ok
  /\ FormatCode(last.input.draws[1]) \in DOMAIN channels
  /\ FormatCode(last.input.draws[1]) # last.ack.channelCode

\* C9: create and join answer invalid_payload, changing nothing, exactly when the
\* nickname is not a string of trimmed length 1..24 (or, for join, the code is not
\* four digits); a create with a valid nickname succeeds whenever generateChannelCode
\* finds a free code, and a join with a valid payload succeeds whenever the channel
\* is active or persisted and has fewer than MAX_USERS_PER_CHANNEL members.
C9_ValidationDecidesOutcome ==
  [][ (Idle /\ last'.op \in {"create", "join"})
      => LET wellFormed == IF last'.op = "create" THEN WellFormedCreate(last'.input)
                           ELSE WellFormedJoin(last'.input)
             code == last'.input.payload.channelCode.s
         IN /\ (last'.ack.code = "invalid_payload") <=> ~wellFormed
            /\ ~wellFormed => (MemoryUnchanged /\ dbChannels' = dbChannels)
            /\ ( /\ last'.op = "create"
                 /\ wellFormed
                 /\ generateChannelCode(DOMAIN channels, last'.input.draws) # Null )
               => last'.ack.ok
            /\ ( /\ last'.op = "join"
                 /\ wellFormed
                 /\ \/ /\ code \in DOMAIN channels
                       /\ Cardinality(DOMAIN channels[code].users) < MAX_USERS_PER_CHANNEL
                    \/ /\ code \notin DOMAIN channels
                       /\ code \in DOMAIN dbChannels )
               => last'.ack.ok ]_vars

(***************************************************************************)
(* Properties of audio ingestion.                                          *)
(***************************************************************************)
ShapeOk(payload) ==
  /\ isValidChannelCode(payload.channelCode)
  /\ payload.senderId.t = "string"
  /\ payload.senderNickname.t = "string"
  /\ payload.audioBase64.t = "string"
  /\ payload.mimeType.t = "string"
  /\ payload.durationMs.t = "number"
  /\ payload.durationMs.finite
  /\ isValidPriority(payload.priority)
MimeOk(payload) == ToLowerCase(Trim(payload.mimeType.s)) \in ALLOWED_MIME_TYPES
DurationOk(payload) ==
  payload.durationMs.v > 0 /\ payload.durationMs.v <= MAX_AUDIO_DURATION_MS
EncodingOk(payload) == estimateBase64Bytes(payload.audioBase64.s) # -1
SizeOk(payload) == estimateBase64Bytes(payload.audioBase64.s) <= MAX_AUDIO_BYTES

\* The request passes every check that precedes the comparison of the sender.
ReachesSenderCheck(s, payload) ==
  /\ ShapeOk(payload) /\ MimeOk(payload) /\ DurationOk(payload)
  /\ EncodingOk(payload) /\ SizeOk(payload)
  /\ s \in DOMAIN socketIndex
  /\ socketIndex[s].channelCode = payload.channelCode.s
  /\ hasUserContext(s)

\* The request passes every check that precedes the rate-limit check.
ReachesRateLimit(s, payload) ==
  /\ ReachesSenderCheck(s, payload)
  /\ payload.senderId.s = NumberToString(socketIndex[s].userId)
  /\ normalizeNickname(payload.senderNickname) = NicknameOf(s)
  /\ (payload.location.t # "undefined" => normalizeLocation(payload.location).t = "object")

\* The request fails no check other than, possibly, the rate limit.
OtherwiseValid(s, payload) ==
  /\ ReachesRateLimit(s, payload)
  /\ ~decodeBase64Audio(payload.audioBase64.s,
                        estimateBase64Bytes(payload.audioBase64.s)).isNull

AudioStep == Idle /\ last'.op = "audio"
NothingSentOrStored ==
  /\ last'.events = <<>>
  /\ dbMessages' = dbMessages
  /\ dbChannels' = dbChannels

\* C2 (as amended): a send-audio request from a bound connection whose senderId is
\* not the bound user's id, or whose senderNickname with surrounding whitespace
\* removed is not the bound user's nickname, is never accepted, produces no event and
\* no row, and is answered unauthorized unless an earlier check fails first (then
\* with that check's code, not_found included when the binding's channel or user
\* state is missing); a request that passes every check, its nickname compared after
\* trimming, is accepted and stored under the bound nickname when it is not rate
\* limited and the store works.
C2_SenderMustMatch ==
  /\ [][ ( /\ AudioStep
           /\ last'.socket \in DOMAIN socketIndex
           /\ \/ last'.input.payload.senderId.t # "string"
              \/ last'.input.payload.senderId.s
                   # NumberToString(socketIndex[last'.socket].userId)
              \/ /\ hasUserContext(last'.socket)
                 /\ normalizeNickname(last'.input.payload.senderNickname)
                      # NicknameOf(last'.socket) )
         => ( /\ ~last'.ack.ok
              /\ NothingSentOrStored
              /\ IF ReachesSenderCheck(last'.socket, last'.input.payload)
                 THEN last'.ack.code = "unauthorized"
                 ELSE last'.ack.code \in { "invalid_payload", "duration_exceeded",
                                          "payload_too_large", "not_found",
                                          "unauthorized" } ) ]_vars
  /\ [][ ( /\ AudioStep
           /\ OtherwiseValid(last'.socket, last'.input.payload)
           /\ last'.ack.code # "rate_limited"
           /\ dbAvailable
           /\ last'.input.failAt = 0 )
         => ( /\ last'.ack.ok
              /\ dbMessages' # <<>>
              /\ dbMessages'[Len(dbMessages')].id = last'.ack.msgId
              /\ dbMessages'[Len(dbMessages')].fromNickname = NicknameOf(last'.socket)
              /\ Len(last'.events) = 2 ) ]_vars

\* C2 witness: a request carrying the bound id and a nickname that is another one
\* even after trimming was answered unauthorized.
C2_Witness ==
  /\ last.op = "audio"
  /\ last.ack.code = "unauthorized"
  /\ hasUserContext(last.socket)
  /\ last.input.payload.channelCode.s = socketIndex[last.socket].channelCode
  /\ last.input.payload.senderId.s = NumberToString(socketIndex[last.socket].userId)
  /\ last.input.payload.senderNickname.t = "string"
  /\ normalizeNickname(last.input.payload.senderNickname) # NicknameOf(last.socket)

\* C2 as stated: a request that reaches the sender checks with a senderNickname that
\* is not exactly the bound nickname is answered unauthorized and produces no event
\* and no row.
C2_ExactNicknameRequired ==
  [][ ( /\ AudioStep
        /\ ReachesSenderCheck(last'.socket, last'.input.payload)
        /\ last'.input.payload.senderNickname.s # NicknameOf(last'.socket) )
      => (last'.ack.code = "unauthorized" /\ NothingSentOrStored) ]_vars

\* C3 (as amended): per user id the requests that pass every check before the
\* rate-limit check are counted, whether or not they fail afterwards.  The first
\* counted request opens a window of AUDIO_RATE_LIMIT_WINDOW_MS; the first
\* AUDIO_RATE_LIMIT_MAX counted requests of a window pass the rate-limit check; every
\* further request reaching the check in that window is answered rate_limited with
\* retryAfterMs the positive time remaining, is neither stored nor broadcast and is
\* not counted; the first request reaching the check at or after the reset time
\* passes it and opens a new window.  A request that passes the check and fails no
\* later step is accepted.  Requests rejected before the check are not counted.
C3_RateLimitWindow ==
  /\ [](\A u \in DOMAIN audioRateLimit :
          audioRateLimit[u].count >= 1 /\ audioRateLimit[u].count <= AUDIO_RATE_LIMIT_MAX)
  /\ [][ (AudioStep /\ ReachesRateLimit(last'.socket, last'.input.payload))
         => LET u == socketIndex[last'.socket].userId IN
            IF u \notin DOMAIN audioRateLimit \/ now >= audioRateLimit[u].resetAt
            THEN /\ last'.ack.code # "rate_limited"
                 /\ audioRateLimit' =
                      Put(audioRateLimit, u,
                          [count |-> 1, resetAt |-> now + AUDIO_RATE_LIMIT_WINDOW_MS])
            ELSE IF audioRateLimit[u].count < AUDIO_RATE_LIMIT_MAX
            THEN /\ last'.ack.code # "rate_limited"
                 /\ audioRateLimit' = [audioRateLimit EXCEPT ![u].count = @ + 1]
            ELSE /\ last'.ack.code = "rate_limited"
                 /\ last'.ack.retryAfterMs = audioRateLimit[u].resetAt - now
                 /\ last'.ack.retryAfterMs > 0
                 /\ NothingSentOrStored
                 /\ audioRateLimit' = audioRateLimit ]_vars
  /\ [][ (AudioStep /\ ~ReachesRateLimit(last'.socket, last'.input.payload))
         => (last'.ack.code # "rate_limited" /\ audioRateLimit' = audioRateLimit) ]_vars
  /\ [][ ( /\ AudioStep
           /\ OtherwiseValid(last'.socket, last'.input.payload)
           /\ dbAvailable
           /\ last'.input.failAt = 0 )
         => (last'.ack.ok \/ last'.ack.code = "rate_limited") ]_vars

\* C3 witness: a user whose window holds AUDIO_RATE_LIMIT_MAX stored messages was
\* answered rate_limited with a positive retryAfterMs.
C3_Witness ==
  /\ last.op = "audio"
  /\ last.ack.code = "rate_limited"
  /\ last.ack.retryAfterMs > 0
  /\ Cardinality({i \in 1..Len(dbMessages) :
                    dbMessages[i].fromUserId = socketIndex[last.socket].userId})
       = AUDIO_RATE_LIMIT_MAX

\* C3 as stated: only otherwise-valid requests are counted, so a request that fails
\* another check leaves the user's window and count as they were.
C3_OnlyValidRequestsCounted ==
  [][ (AudioStep /\ ~OtherwiseValid(last'.socket, last'.input.payload))
      => audioRateLimit' = audioRateLimit ]_vars

\* C10: every stored audio message has sizeBytes equal to the length of its payload
\* and at most MAX_AUDIO_BYTES; the row stored for an accepted request holds the
\* bytes its audioBase64 decodes to; a request whose decoded payload is longer than
\* MAX_AUDIO_BYTES is rejected without any persistence call, with payload_too_large
\* when it passes the checks before the size check; and recordAudioMessage throws,
\* storing nothing, for a record whose sizeBytes is not its payload's length.
C10_StoredSizeIsPayloadLength ==
  /\ [](\A i \in 1..Len(dbMessages) :
          /\ dbMessages[i].sizeBytes = Len(dbMessages[i].payload)
          /\ dbMessages[i].sizeBytes <= MAX_AUDIO_BYTES)
  /\ [][ (AudioStep /\ last'.ack.ok)
         => /\ dbMessages' # <<>>
            /\ dbMessages'[Len(dbMessages')].id = last'.ack.msgId
            /\ dbMessages'[Len(dbMessages')].payload
                 = BufferFromBase64(last'.input.payload.audioBase64.s)
            /\ dbMessages'[Len(dbMessages')].sizeBytes
                 = Len(BufferFromBase64(last'.input.payload.audioBase64.s)) ]_vars
  /\ [][ ( /\ AudioStep
           /\ last'.input.payload.audioBase64.t = "string"
           /\ Len(BufferFromBase64(last'.input.payload.audioBase64.s)) > MAX_AUDIO_BYTES )
         => ( /\ ~last'.ack.ok
              /\ NothingSentOrStored
              /\ ( /\ ShapeOk(last'.input.payload)
                   /\ MimeOk(last'.input.payload)
                   /\ DurationOk(last'.input.payload)
                   /\ EncodingOk(last'.input.payload) )
                 => last'.ack.code = "payload_too_large" ) ]_vars
  /\ [][ ( /\ Idle
           /\ last'.op = "record"
           /\ last'.input.sizeBytes # Len(last'.input.payload) )
         => (last'.threw /\ dbMessages' = dbMessages) ]_vars

\* C10 witness: the store, holding a message of exactly MAX_AUDIO_BYTES bytes, has
\* thrown for a record whose payload fits but whose sizeBytes is another number.
C10_Witness ==
  /\ last.op = "record"
  /\ last.threw
  /\ last.input.sizeBytes # Len(last.input.payload)
  /\ Len(last.input.payload) <= MAX_AUDIO_BYTES
  /\ \E i \in 1..Len(dbMessages) : dbMessages[i].sizeBytes = MAX_AUDIO_BYTES

(***************************************************************************)
(* Properties of the emergency coordinator.                                *)
(***************************************************************************)
\* C4: for a bound user a valid emergency broadcast succeeds when the user has not
\* broadcast before or RATE_LIMIT_WINDOW_MS or more have passed since the user's last
\* successful broadcast; otherwise it fails with rate_limited and retryAfterMs the
\* positive time remaining, and emits no emergency:alert.
C4_EmergencyCooldown ==
  [][ ( /\ Idle
        /\ last'.op = "emergency"
        /\ last'.socket \in DOMAIN socketIndex
        /\ normalizeMessage(last'.input.payload.message) # Null )
      => LET u == socketIndex[last'.socket].userId IN
         IF \/ u \notin DOMAIN lastBroadcastByUserId
            \/ now - lastBroadcastByUserId[u] >= RATE_LIMIT_WINDOW_MS
         THEN /\ last'.ack.ok
              /\ \E i \in 1..Len(last'.events) : last'.events[i].event = "emergency:alert"
              /\ lastBroadcastByUserId' = Put(lastBroadcastByUserId, u, now)
         ELSE /\ last'.ack.code = "rate_limited"
              /\ last'.ack.retryAfterMs
                   = RATE_LIMIT_WINDOW_MS - (now - lastBroadcastByUserId[u])
              /\ last'.ack.retryAfterMs > 0
              /\ \A i \in 1..Len(last'.events) : last'.events[i].event # "emergency:alert"
              /\ lastBroadcastByUserId' = lastBroadcastByUserId ]_vars

(***************************************************************************)
(* Properties of the client's offline queue.                               *)
(***************************************************************************)
\* C5: the queue of requests issued while disconnected never holds more than
\* MAX_QUEUE_SIZE items; a request issued while disconnected goes to the tail, the
\* oldest item being dropped first when the queue is full, and nothing is
\* transmitted; on connect the queued items are transmitted in their order, after
\* what was transmitted before, and the queue is empty; no request is ever
\* transmitted twice.
C5_OfflineQueueBoundedAndReplayed ==
  /\ [](Len(queue) <= MAX_QUEUE_SIZE)
  /\ [](\A i, j \in 1..Len(transmitted) :
          transmitted[i].id = transmitted[j].id => i = j)
  /\ [](\A i \in 1..Len(queue) : \A j \in 1..Len(transmitted) :
          queue[i].id # transmitted[j].id)
  /\ [][ (issued' = issued + 1 /\ ~connected)
         => /\ transmitted' = transmitted
            /\ queue' # <<>>
            /\ queue'[Len(queue')].id = issued + 1
            /\ SubSeq(queue', 1, Len(queue') - 1)
                 = IF Len(queue) >= MAX_QUEUE_SIZE THEN Tail(queue) ELSE queue ]_vars
  /\ [][ (~connected /\ connected')
         => /\ transmitted' = transmitted \o queue
            /\ queue' = <<>> ]_vars

\* C5 witness: MAX_QUEUE_SIZE + 1 requests were issued while disconnected and the
\* client has connected: the first request is lost, the others were transmitted in
\* order and the queue is empty.
C5_Witness ==
  /\ connected
  /\ queue = <<>>
  /\ issued = MAX_QUEUE_SIZE + 1
  /\ Len(transmitted) = MAX_QUEUE_SIZE
  /\ \A i \in 1..Len(transmitted) : transmitted[i].id = i + 1

(***************************************************************************)
(* Properties of the playback scheduler.                                   *)
(***************************************************************************)
\* C6: an urgent item enqueued with allowInterrupt while a routine item is playing
\* stops that item, and the urgent item is the next one to occupy the playback slot
\* (unless its decode fails or everything is stopped).
C6_UrgentInterruptsRoutine ==
  /\ [][ ( /\ playerLast'.op = "enqueue"
           /\ playerLast'.item.priority = "urgent"
           /\ playerLast'.options.allowInterrupt
           /\ currentRef.priority = "routine" )
         => currentRef' = NoCurrent ]_vars
  /\ [][ (currentRef = NoCurrent /\ currentRef' # NoCurrent /\ awaited # 0)
         => currentRef'.id = awaited ]_vars

\* C7 (as amended): an item enqueued with respectPriority = false is appended at the
\* tail of the queue whatever its priority, except when it is urgent, allowInterrupt
\* is on and something is playing: then the playing item is stopped, the queue is
\* left as it is, and the continuation puts the item at the head of the queue.
C7_IgnoredPriorityAppends ==
  /\ [][ (playerLast'.op = "enqueue" /\ ~playerLast'.options.respectPriority)
         => IF /\ currentRef # NoCurrent
               /\ playerLast'.options.allowInterrupt
               /\ playerLast'.item.priority = "urgent"
            THEN /\ currentRef' = NoCurrent
                 /\ queueRef' = queueRef
                 /\ microtasks' = Append(microtasks, [item |-> playerLast'.item,
                                                      options |-> playerLast'.options])
            ELSE playerLast'.placed = Append(queueRef, playerLast'.item) ]_vars
  /\ [][ playerLast'.op = "interrupt"
         => playerLast'.placed = <<playerLast'.item>> \o queueRef ]_vars

\* C7 witness: an urgent item enqueued with respectPriority = false and
\* allowInterrupt = false while something plays was put behind a queued item.
C7_Witness ==
  /\ playerLast.op = "enqueue"
  /\ ~playerLast.options.respectPriority
  /\ ~playerLast.options.allowInterrupt
  /\ playerLast.item.priority = "urgent"
  /\ currentRef # NoCurrent
  /\ Len(playerLast.placed) >= 2
  /\ playerLast.placed[Len(playerLast.placed)] = playerLast.item

\* C7 as stated: with respectPriority = false the item is always appended at the
\* tail, whatever its priority, allowInterrupt and the playback state.
C7_AlwaysAppended ==
  [][ (playerLast'.op \in {"enqueue", "interrupt"} /\ ~playerLast'.options.respectPriority)
      => playerLast'.placed = Append(queueRef, playerLast'.item) ]_vars

(***************************************************************************)
(* Members of several channels: sessions and audio together.               *)
(***************************************************************************)
NumMembers == 2
MaxMemberIds == 3
Members == 1..NumMembers

SameDraws(n) == [i \in 1..MAX_CODE_GENERATION_ATTEMPTS |-> n]
RoomCreateInputs ==
  { [payload |-> [nickname |-> Str(<<" ", "A", " ">>)], draws |-> SameDraws(n),
     failAt |-> f] : n \in RandomInts, f \in {0, 2, 3} }
RoomJoinInputs ==
  { [payload |-> [channelCode |-> Str(c), nickname |-> Str(<<"B">>)], failAt |-> 0] :
      c \in GeneratedCodes }
RoomAudioInputs(s) == {[payload |-> WellFormedAudio(s), failAt |-> f] : f \in 0..2}

RoomNext ==
  \/ \E s \in Members :
       \/ Disconnect(s)
       \/ Create(s, RoomCreateInputs, MaxMemberIds)
       \/ Join(s, RoomJoinInputs, MaxMemberIds)
       \/ Leave(s)
       \/ SendAudio(s, RoomAudioInputs(s))
  \/ Deliver

SpecRoom == Init /\ [][RoomNext]_vars

AlertCreateInputs == {in \in RoomCreateInputs : in.failAt = 0}

AlertNext ==
  \/ \E s \in Members :
       \/ Disconnect(s)
       \/ Create(s, AlertCreateInputs, MaxMemberIds)
       \/ Join(s, RoomJoinInputs, MaxMemberIds)
       \/ Broadcast(s)
  \/ Deliver

SpecAlert == Init /\ [][AlertNext]_vars

\* The server with its emitted events reaching the sockets.
SpecAlertFair == SpecAlert /\ WF_vars(Deliver)

(***************************************************************************)
(* Properties of history replay.                                           *)
(***************************************************************************)
HistoryEvents(events) ==
  SelectSeq(events, LAMBDA e : e.event = "audio-history")

\* C11: after every successful channel:create and channel:join of a channel that has
\* persisted messages, the joining connection, and only it, receives one
\* audio-history event holding the newest HISTORY_LIMIT persisted messages of that
\* channel, oldest first.
C11_HistoryReplayedOnEntry ==
  [][ ( /\ Idle
        /\ last'.op \in {"create", "join"}
        /\ last'.ack.ok
        /\ MessagesOf(dbMessages, last'.ack.channelCode) # <<>> )
      => LET history == listRecentMessages(dbMessages, last'.ack.channelCode) IN
         /\ Len(HistoryEvents(last'.events)) = 1
         /\ HistoryEvents(last'.events)[1].to = {last'.socket}
         /\ HistoryEvents(last'.events)[1].msgIds
              = [i \in 1..Len(history) |-> history[i].id] ]_vars

(***************************************************************************)
(* Properties of the client's audio retry queue.                           *)
(***************************************************************************)
Settled(rep, payload) == rep[payload.id] \cap {"sent", "failed"} # {}
Holds(q, payload) == \E i \in 1..Len(q) : q[i] = payload

\* C12: when a drain of the audio retry queue ends, by running out of items or by
\* stopping early on a dropped connection or a timed-out acknowledgement, every item
\* it took that has not been reported sent or failed is in the retry queue.
C12_StoppedDrainKeepsItems ==
  [][ \A d \in DOMAIN drains :
        d \notin DOMAIN drains'
          => \A i \in 1..Len(drains[d].pending) :
               \/ Settled(reported', drains[d].pending[i])
               \/ Holds(audioRetryQueue', drains[d].pending[i]) ]_vars

\* C13: every payload handed to sendAudioMessage has been reported sent or failed, or
\* is held by the client: in the retry queue, in a drain in progress, or in a send
\* awaiting its acknowledgement.
C13_NothingSilentlyDropped ==
  \A id \in 1..(nextPayloadId - 1) :
    \/ reported[id] \cap {"sent", "failed"} # {}
    \/ \E i \in 1..Len(audioRetryQueue) : audioRetryQueue[i].id = id
    \/ \E payload \in sending : payload.id = id
    \/ \E d \in DOMAIN drains :
         \E i \in 1..Len(drains[d].pending) : drains[d].pending[i].id = id

(***************************************************************************)
(* Properties of emergency alerts.                                         *)
(***************************************************************************)
Alerts(events) == SelectSeq(events, LAMBDA e : e.event = "emergency:alert")

\* C14: every emergency broadcast fanned out as an emergency:alert event has an entry
\* with the same id appended to the persisted emergency log, whether or not the
\* sender supplied an acknowledgement callback; entries are only ever appended, by
\* broadcasts, and never modified.
C14_AlertsAreLogged ==
  /\ [][ (Idle /\ last'.op = "emergency" /\ Alerts(last'.events) # <<>>)
         => /\ Len(dbEmergency') = Len(dbEmergency) + 1
            /\ <<dbEmergency'[Len(dbEmergency')].id>> = Alerts(last'.events)[1].msgIds ]_vars
  /\ [][ dbEmergency' # dbEmergency
         => /\ last'.op = "emergency"
            /\ Len(dbEmergency') = Len(dbEmergency) + 1
            /\ SubSeq(dbEmergency', 1, Len(dbEmergency)) = dbEmergency ]_vars

\* C15: a successful emergency broadcast is delivered as one emergency:alert event,
\* with priority urgent, to every connected client, whatever channel the client is
\* bound to or none; a broadcast with an invalid message, from an unbound caller or
\* inside the caller's cooldown is rejected; a rejected broadcast is delivered to no
\* client.
C15_AlertReachesEveryClient ==
  [][ (Idle /\ last'.op = "emergency")
      => /\ IF last'.ack.ok
            THEN /\ Len(Alerts(last'.events)) = 1
                 /\ Alerts(last'.events)[1].to = Sockets
                 /\ Alerts(last'.events)[1].data.priority = "urgent"
                 /\ Alerts(last'.events)[1].data.id = last'.ack.msgId
            ELSE Alerts(last'.events) = <<>>
         /\ ( \/ normalizeMessage(last'.input.payload.message) = Null
              \/ last'.socket \notin DOMAIN socketIndex
              \/ /\ socketIndex[last'.socket].userId \in DOMAIN lastBroadcastByUserId
                 /\ now - lastBroadcastByUserId[socketIndex[last'.socket].userId]
                      < RATE_LIMIT_WINDOW_MS )
            => ~last'.ack.ok ]_vars

\* C15 witness: the alert of a member of one channel went to every client while one
\* client was a member of another channel and one was bound to no channel.
C15_Witness ==
  /\ last.op = "emergency"
  /\ last.ack.ok
  /\ Alerts(last.events)[1].to = Sockets
  /\ \E other \in DOMAIN socketIndex :
       socketIndex[other].channelCode # socketIndex[last.socket].channelCode
  /\ \E unbound \in Sockets : unbound \notin DOMAIN socketIndex

(***************************************************************************)
(* Properties of audio delivery.                                           *)
(***************************************************************************)
\* C16: a send-audio request that reaches persistence while the store is unavailable
\* or one of its persistence calls fails is answered with code internal; and no
\* request handled under such a failure emits an audio-message event, stores a
\* message, or changes membership, bindings or last-activity timestamps.
C16_PersistenceFailureIsInternal ==
  /\ [][ ( /\ AudioStep
           /\ OtherwiseValid(last'.socket, last'.input.payload)
           /\ last'.ack.code # "rate_limited"
           /\ (~dbAvailable \/ last'.input.failAt # 0) )
         => last'.ack.code = "internal" ]_vars
  /\ [][ (AudioStep /\ (~dbAvailable \/ last'.input.failAt # 0))
         => /\ ~last'.ack.ok
            /\ last'.events = <<>>
            /\ dbMessages' = dbMessages
            /\ channels' = channels
            /\ socketIndex' = socketIndex
            /\ rooms' = rooms ]_vars

\* C16 witness: recordAudioMessage threw for a member's valid request some time after
\* the member's last activity, and the request was answered internal.
C16_Witness ==
  /\ last.op = "audio"
  /\ last.ack.code = "internal"
  /\ dbAvailable
  /\ last.input.failAt = 2
  /\ hasUserContext(last.socket)
  /\ channels[socketIndex[last.socket].channelCode].lastActivityAt < now

AudioMessages(events) == SelectSeq(events, LAMBDA e : e.event = "audio-message")
BoundTo(code) == {x \in DOMAIN socketIndex : socketIndex[x].channelCode = code}

\* C17: for an accepted send-audio request exactly the connections bound to the
\* message's channel, the sender included, receive one audio-message event; the event
\* carries an id no stored message has and the bound sender's nickname; the
\* acknowledgement carries the same id and timestamp; and the message is in the store.
C17_AudioReachesTheChannel ==
  [][ (AudioStep /\ last'.ack.ok)
      => LET sent == AudioMessages(last'.events) IN
         /\ Len(sent) = 1
         /\ last'.socket \in sent[1].to
         /\ sent[1].to = BoundTo(last'.input.payload.channelCode.s)
         /\ sent[1].data.senderNickname = NicknameOf(last'.socket)
         /\ sent[1].data.id = last'.ack.msgId
         /\ sent[1].data.timestamp = last'.ack.timestamp
         /\ \A i \in 1..Len(dbMessages) : dbMessages[i].id # sent[1].data.id
         /\ \E i \in 1..Len(dbMessages') : dbMessages'[i].id = sent[1].data.id ]_vars

\* The connections a directory lists as members of a channel, and the user:left
\* events emitted for a user id.
SocketsIn(directory, code) ==
  IF code \in DOMAIN directory
  THEN {directory[code].users[u].socketId : u \in DOMAIN directory[code].users}
  ELSE {}
ChannelsOf(directory, s) == {c \in DOMAIN directory : s \in SocketsIn(directory, c)}
UserLeft(events, uid) ==
  SelectSeq(events, LAMBDA e : e.event = "user:left" /\ e.userId = uid)

\* C18: when a bound connection leaves or disconnects, its binding is deleted and its
\* user is in no member map; every other member of the channel it was bound to
\* receives one user:left event for its user id and the leaver receives none; a
\* channel left without members is removed from the directory; the persisted channel
\* records are untouched, and a later join of a persisted code that is not in the
\* directory succeeds.
C18_LeaveDetachesAndNotifies ==
  /\ [][ ( /\ Idle
           /\ last'.op \in {"leave", "disconnect"}
           /\ last'.socket \in DOMAIN socketIndex
           /\ last'.ack.code # "invalid_payload" )
         => LET s == last'.socket
                old == socketIndex[s]
                remaining == SocketsIn(channels, old.channelCode) \ {s}
                left == UserLeft(last'.events, old.userId)
            IN /\ s \notin DOMAIN socketIndex'
               /\ \A c \in DOMAIN channels' : old.userId \notin DOMAIN channels'[c].users
               /\ Len(left) <= 1
               /\ \A i \in 1..Len(left) : s \notin left[i].to
               /\ remaining # {} => (Len(left) = 1 /\ remaining \subseteq left[1].to)
               /\ remaining = {} => old.channelCode \notin DOMAIN channels'
               /\ dbChannels' = dbChannels ]_vars
  /\ [][ ( /\ Idle
           /\ last'.op = "join"
           /\ WellFormedJoin(last'.input)
           /\ last'.input.payload.channelCode.s \notin DOMAIN channels
           /\ last'.input.payload.channelCode.s \in DOMAIN dbChannels
           /\ dbAvailable
           /\ last'.input.failAt = 0 )
         => last'.ack.ok ]_vars

\* C19: a connection is a member of at most one channel of the directory (its binding
\* is one entry of a map); and a bound connection whose create or join succeeds is
\* taken out of its previous channel, whose other members receive user:left before
\* the user:joined of the new user, and is then bound with a new user id to the
\* target channel and is a member of that channel only.
C19_OneChannelPerConnection ==
  /\ [](\A s \in Sockets : Cardinality(ChannelsOf(channels, s)) <= 1)
  /\ [][ ( /\ Idle
           /\ last'.op \in {"create", "join"}
           /\ last'.ack.ok
           /\ last'.socket \in DOMAIN socketIndex )
         => LET s == last'.socket
                old == socketIndex[s]
                target == last'.ack.channelCode
                uid == last'.ack.userId
                remaining == SocketsIn(channels, old.channelCode) \ {s}
                left == UserLeft(last'.events, old.userId)
            IN /\ uid # old.userId
               /\ socketIndex'[s] = [channelCode |-> target, userId |-> uid]
               /\ \A c \in DOMAIN channels' : old.userId \notin DOMAIN channels'[c].users
               /\ ChannelsOf(channels', s) = {target}
               /\ remaining # {}
                    => /\ Len(left) = 1
                       /\ remaining \subseteq left[1].to
                       /\ last'.events[1] = left[1] ]_vars

\* C20: every binding of the socket index names a channel of the directory whose
\* member map holds the binding's user id for that socket, and every user of a
\* member map is the user of its socket's binding.
C20_BindingsAndMembersAgree ==
  /\ \A s \in DOMAIN socketIndex :
        LET code == socketIndex[s].channelCode
            uid == socketIndex[s].userId
        IN /\ code \in DOMAIN channels
           /\ uid \in DOMAIN channels[code].users
           /\ channels[code].users[uid].socketId = s
  /\ \A c \in DOMAIN channels : \A u \in DOMAIN channels[c].users :
        LET s == channels[c].users[u].socketId
        IN /\ s \in DOMAIN socketIndex
           /\ socketIndex[s] = [channelCode |-> c, userId |-> u]

\* The code of the first check a send-audio request fails, the checks taken in the
\* order shape, mime allow-list, duration, non-empty strict base64, size estimate,
\* caller binding and claimed channel and sender, nickname, location, rate limit,
\* final decode; "none" when it fails none of them.
RateLimitExhausted(u) ==
  /\ u \in DOMAIN audioRateLimit
  /\ now < audioRateLimit[u].resetAt
  /\ audioRateLimit[u].count >= AUDIO_RATE_LIMIT_MAX
FailsBeforeRateLimit(s, payload) ==
  IF ~ShapeOk(payload) THEN "invalid_payload"
  ELSE IF ~MimeOk(payload) THEN "invalid_payload"
  ELSE IF ~DurationOk(payload) THEN "duration_exceeded"
  ELSE IF Len(Trim(payload.audioBase64.s)) = 0 \/ ~EncodingOk(payload)
  THEN "invalid_payload"
  ELSE IF ~SizeOk(payload) THEN "payload_too_large"
  ELSE IF s \notin DOMAIN socketIndex THEN "not_found"
  ELSE IF socketIndex[s].channelCode # payload.channelCode.s THEN "unauthorized"
  ELSE IF ~hasUserContext(s) THEN "not_found"
  ELSE IF payload.senderId.s # NumberToString(socketIndex[s].userId) THEN "unauthorized"
  ELSE IF normalizeNickname(payload.senderNickname) # NicknameOf(s) THEN "unauthorized"
  ELSE IF payload.location.t # "undefined" /\ normalizeLocation(payload.location).t # "object"
  THEN "invalid_payload"
  ELSE "none"
FirstFailingCheck(s, payload) ==
  IF FailsBeforeRateLimit(s, payload) # "none" THEN FailsBeforeRateLimit(s, payload)
  ELSE IF RateLimitExhausted(socketIndex[s].userId) THEN "rate_limited"
  ELSE IF decodeBase64Audio(payload.audioBase64.s,
                            estimateBase64Bytes(payload.audioBase64.s)).isNull
  THEN "invalid_payload"
  ELSE "none"

\* C21: a send-audio request that fails a check is answered with the code of the
\* first check it fails, in the order above, and one that fails none is not rejected
\* by validation; a request that fails a check before the rate limit leaves the
\* rate-limit map, the maps of the service and the store as they were and emits
\* nothing.
C21_FirstFailingCheckDecides ==
  [][ AudioStep
      => LET s == last'.socket
             payload == last'.input.payload
         IN /\ IF FirstFailingCheck(s, payload) = "none"
               THEN last'.ack.code \in {"ok", "internal"}
               ELSE last'.ack.code = FirstFailingCheck(s, payload)
            /\ FailsBeforeRateLimit(s, payload) # "none"
                 => (MemoryUnchanged /\ NothingSentOrStored) ]_vars

\* A request with a duration over the limit, from a member whose rate limit is
\* exhausted and who claims another sender id, answered duration_exceeded.
C21_Witness ==
  /\ last.op = "audio"
  /\ last.ack.code = "duration_exceeded"
  /\ hasUserContext(last.socket)
  /\ last.input.payload.senderId.s # NumberToString(socketIndex[last.socket].userId)
  /\ RateLimitExhausted(socketIndex[last.socket].userId)

\* C22: the store after a send-audio request is either the store before it, or the
\* store with the channel row upserted, the message inserted and the channel pruned
\* to the retention limit; a request that is not acknowledged ok leaves both tables
\* as they were.
C22_AudioPersistIsAtomic ==
  [][ AudioStep
      => IF last'.ack.ok
         THEN LET code == last'.input.payload.channelCode.s IN
              /\ \E i \in 1..Len(dbMessages') : dbMessages'[i].id = last'.ack.msgId
              /\ Len(MessagesOf(dbMessages', code)) <= MESSAGE_RETENTION
              /\ code \in DOMAIN dbChannels'
              /\ dbChannels'[code].lastActivityAt = now
         ELSE dbMessages' = dbMessages /\ dbChannels' = dbChannels ]_vars

\* A persistence call of the handled request threw: the request reached the call
\* that its input makes throw.
PersistenceFailed ==
  /\ Idle
  /\ dbAvailable
  /\ \/ /\ last'.op = "create"
        /\ WellFormedCreate(last'.input)
        /\ generateChannelCode(DOMAIN channels, last'.input.draws) # Null
        /\ last'.input.failAt # 0
     \/ /\ last'.op = "join"
        /\ WellFormedJoin(last'.input)
        /\ last'.input.payload.channelCode.s \notin DOMAIN channels
        /\ last'.input.failAt = 1
     \/ /\ last'.op = "audio"
        /\ last'.ack.code = "internal"
     \/ /\ last'.op = "emergency"
        /\ last'.events # <<>>
        /\ last'.input.hasAck
        /\ last'.input.failAt # 0
\* The directory with each channel's member ids.
MemberIds(directory) == [c \in DOMAIN directory |-> DOMAIN directory[c].users]

\* C23: a request one of whose persistence calls throws is not acknowledged ok and
\* leaves the directory, every channel's members and every binding as they were.
C23_PersistenceFailureKeepsMemory ==
  [][ PersistenceFailed
      => /\ ~last'.ack.ok
         /\ MemberIds(channels') = MemberIds(channels)
         /\ socketIndex' = socketIndex ]_vars

(***************************************************************************)
(* Retention jobs (cleanupService.ts) and the statements they run.         *)
(***************************************************************************)
DEFAULT_MESSAGE_RETENTION_DAYS == 1
DEFAULT_EMERGENCY_RETENTION_DAYS == 1
DEFAULT_CHANNEL_IDLE_DAYS == 1
MaxStored == 4

\* pruneMessagesForAllChannels: the prune statement for every code of the channels
\* table, in one transaction.
RECURSIVE pruneMessagesForAllChannels(_, _)
pruneMessagesForAllChannels(table, codes) ==
  IF codes = {} THEN table
  ELSE LET code == CHOOSE c \in codes : TRUE IN
       pruneMessagesForAllChannels(pruneMessages(table, code), codes \ {code})

cleanupOldMessages(table, cutoff) == SelectSeq(table, LAMBDA row : row.createdAt >= cutoff)

cleanupOldEmergencyLogs(table, cutoff) ==
  SelectSeq(table, LAMBDA row : row.createdAt >= cutoff)

cleanupIdleChannels(table, cutoff) ==
  [code \in {c \in DOMAIN table : table[c].lastActivityAt >= cutoff} |-> table[code]]

\* FOREIGN KEY (channel_code) REFERENCES channels(code) ON DELETE CASCADE
cascadeMessages(table, channelRows) ==
  SelectSeq(table, LAMBDA row : row.channelCode \in DOMAIN channelRows)

runCleanup ==
  /\ Idle
  /\ dbAvailable
  /\ LET pruned == pruneMessagesForAllChannels(dbMessages, DOMAIN dbChannels)
         recent == cleanupOldMessages(pruned, now - DEFAULT_MESSAGE_RETENTION_DAYS)
         active == cleanupIdleChannels(dbChannels, now - DEFAULT_CHANNEL_IDLE_DAYS)
     IN /\ dbEmergency' = cleanupOldEmergencyLogs(dbEmergency,
                                                  now - DEFAULT_EMERGENCY_RETENTION_DAYS)
        /\ dbChannels' = active
        /\ dbMessages' = cascadeMessages(recent, active)
  /\ last' = [NoRequest EXCEPT !.op = "cleanup"]
  /\ UNCHANGED <<channels, socketIndex, rooms, audioRateLimit, lastBroadcastByUserId,
                 dbAvailable, now, nextUserId, nextMsgId>>
  /\ UNCHANGED <<clientVars, playerVars>>

\* A member's well-formed send-audio request, all persistence calls succeeding.
StoreAudio(s) ==
  /\ Idle
  /\ handleSendAudioMessage(s, WellFormedAudio(s), 0)
  /\ nextMsgId' <= MaxStored + 1
  /\ UNCHANGED <<lastBroadcastByUserId, dbAvailable, dbEmergency, now, nextUserId>>
  /\ UNCHANGED <<clientVars, playerVars>>

RetentionNext ==
  \/ \E s \in Members :
       \/ Create(s, AlertCreateInputs, NumMembers)
       \/ StoreAudio(s)
  \/ runCleanup
  \/ Tick
  \/ Deliver

SpecRetention == Init /\ [][RetentionNext]_vars

\* The positions of a channel's rows in the messages table, and the ids at them.
RowsOf(table, code) == {i \in 1..Len(table) : table[i].channelCode = code}
IdsOf(table, code) == {table[i].id : i \in RowsOf(table, code)}
StoredCodes(table) == {table[i].channelCode : i \in 1..Len(table)}

\* C24: no channel ever has more than MESSAGE_RETENTION persisted messages; after a
\* successful audio submission and after a retention run, no row that was dropped
\* from a channel is newer than a row of that channel that was kept; and a
\* submission to one channel leaves the rows of every other channel as they were.
C24_RetentionKeepsNewest ==
  /\ [](\A code \in StoredCodes(dbMessages) :
          Cardinality(RowsOf(dbMessages, code)) <= MESSAGE_RETENTION)
  /\ [][ ((AudioStep /\ last'.ack.ok) \/ (Idle /\ last'.op = "cleanup"))
         => \A code \in StoredCodes(dbMessages) \cup StoredCodes(dbMessages') :
              LET before == IdsOf(dbMessages, code)
                  after == IdsOf(dbMessages', code)
                  created(id) ==
                    LET i == CHOOSE j \in 1..Len(dbMessages) : dbMessages[j].id = id
                    IN dbMessages[i].createdAt
              IN /\ \A gone \in before \ after : \A kept \in before \cap after :
                      created(gone) <= created(kept)
                 /\ (last'.op = "audio" /\ code # last'.input.payload.channelCode.s)
                      => SelectSeq(dbMessages', LAMBDA row : row.channelCode = code)
                           = SelectSeq(dbMessages, LAMBDA row : row.channelCode = code)
                 /\ last'.op = "audio"
                      => (after \ before = {last'.ack.msgId}) \/ after \subseteq before
       ]_vars

\* A submission that prunes its channel while another channel has a stored message.
C24_Witness ==
  /\ last.op = "audio"
  /\ last.ack.ok
  /\ Cardinality(RowsOf(dbMessages, last.input.payload.channelCode.s)) = MESSAGE_RETENTION
  /\ \A i \in RowsOf(dbMessages, last.input.payload.channelCode.s) : dbMessages[i].id >= 3
  /\ \E code \in StoredCodes(dbMessages) : code # last.input.payload.channelCode.s

\* A step of flushAudioRetryQueue that hands a payload to the socket.
RetryTransmits ==
  /\ nextPayloadId' = nextPayloadId
  /\ Len(transmitted') > Len(transmitted)
  /\ transmitted'[Len(transmitted')].event = "send-audio-message"
\* The payloads waiting for a retry, oldest first: what drains in progress still
\* hold, then the retry queue.
RECURSIVE HeldByDrains(_, _)
HeldByDrains(ds, ids) ==
  IF ids = {} THEN <<>>
  ELSE LET d == CHOOSE x \in ids : \A y \in ids : x <= y
       IN ds[d].pending \o HeldByDrains(ds, ids \ {d})
AwaitingRetry == HeldByDrains(drains, DOMAIN drains) \o audioRetryQueue

\* C30: at most one send of the retry queue is waiting for its acknowledgement, and
\* a payload the drain hands to the socket is the oldest of the payloads waiting for
\* a retry that is not itself waiting for an acknowledgement.
C30_RetriesOneAtATimeInOrder ==
  /\ [](Cardinality(DOMAIN drains) <= 1)
  /\ [][ RetryTransmits
         => LET sent == transmitted'[Len(transmitted')].id
                inFlight == {Head(drains[d].pending).id : d \in DOMAIN drains}
                waiting == SelectSeq(AwaitingRetry, LAMBDA x : x.id \notin inFlight)
            IN waiting # <<>> /\ Head(waiting).id = sent ]_vars

(***************************************************************************)
(* The connection manager on its own: connect() and disconnect(), the      *)
(* socket's events, the reconnect timer and the heartbeat.                 *)
(***************************************************************************)
ReconnectNext ==
  \/ connect
  \/ disconnect
  \/ OnConnect
  \/ OnDisconnect(Randoms)
  \/ OnConnectError(Randoms)
  \/ \E t \in pendingTimers : ReconnectFired(t)
  \/ HeartbeatTick

SpecReconnect == Init /\ [][ReconnectNext]_vars

\* C25: at most one reconnect timer is pending; one is pending only while the
\* intent to stay connected is set and the status is not connected; and while the
\* intent is cleared (after disconnect(), until connect() sets it again) no step,
\* whatever event arrives, makes the status connecting or starts a connection attempt.
C25_ReconnectTimerDiscipline ==
  /\ [](/\ Cardinality(pendingTimers) <= 1
        /\ pendingTimers # {} => shouldReconnect /\ status # "connected")
  /\ [][ ~shouldReconnect /\ ~shouldReconnect'
         => status' # "connecting" /\ ~attempting' ]_vars

\* disconnect() was called after reconnect timers had fired, and nothing is pending.
C25_Witness ==
  /\ ~shouldReconnect
  /\ reconnectAttempts > 0
  /\ status = "disconnected"
  /\ pendingTimers = {}

\* A reconnect timeout fires: it leaves the pending ones though neither the connect
\* handler nor disconnect() cleared it.
TimerFires == pendingTimers # {} /\ pendingTimers' = {} /\ ~connected' /\ shouldReconnect'

ConnectSucceeds == ~connected /\ connected'

\* C26: a reconnect timer is set for min(30000, 500 * 2^k) ms times a jitter factor
\* within [0.8, 1.2], k being the attempt counter at that moment; the counter is 0
\* at the start, grows by one each time a reconnect timer fires, returns to 0 on
\* every successful connect and changes in no other step, so that k is the number
\* of timers fired since the last successful connect.
C26_BackoffDelay ==
  /\ [](\A t \in pendingTimers :
          LET base == Min(RECONNECT_MAX_DELAY_MS, RECONNECT_BASE_DELAY_MS * Pow2(t.attempt))
          IN /\ t.attempt = reconnectAttempts
             /\ 8 * base <= 10 * t.delay
             /\ 10 * t.delay <= 12 * base)
  /\ [][ reconnectAttempts' =
           IF ConnectSucceeds THEN 0
           ELSE IF TimerFires THEN reconnectAttempts + 1
           ELSE reconnectAttempts ]_vars

\* A timer set after seven fires without a successful connect: the cap applies.
C26_Witness ==
  \E t \in pendingTimers :
    /\ t.attempt >= 7
    /\ RECONNECT_BASE_DELAY_MS * Pow2(t.attempt) > RECONNECT_MAX_DELAY_MS
    /\ t.delay >= 24000

(***************************************************************************)
(* The requests of the connection manager: issued online or offline,       *)
(* flushed on connect, acknowledged or timed out, across connect(),        *)
(* disconnect() and dropped connections.                                   *)
(***************************************************************************)
ManagerEvents == {"channel:join"}

RequestsNext ==
  \/ \E event \in ManagerEvents : emitWithAck(event)
  \/ connect
  \/ disconnect
  \/ OnConnect
  \/ OnDisconnect(NoRandom)
  \/ HeartbeatTick
  \/ \E id \in DOMAIN waits : AckArrives(id) \/ AckTimeout(id)

SpecRequests == Init /\ [][RequestsNext]_vars

\* disconnect() is the only step that clears the intent to stay connected.
DisconnectCalled == shouldReconnect /\ ~shouldReconnect'

InFlight == {id \in DOMAIN waits : ~waits[id].settled}

\* C27: disconnect() leaves no reconnect timer and no heartbeat timer and the status
\* disconnected, and changes no acknowledgement wait, no promise and neither queue;
\* in every step, a wait in flight becomes settled only by its own acknowledgement
\* or by its own timeout.
C27_DisconnectKeepsWaitsAndQueues ==
  /\ [][ DisconnectCalled
         => /\ pendingTimers' = {} /\ reconnectTimer' = 0
            /\ ~heartbeatTimer'
            /\ status' = "disconnected"
            /\ waits' = waits /\ promises' = promises
            /\ sending' = sending /\ drains' = drains
            /\ queue' = queue /\ audioRetryQueue' = audioRetryQueue ]_vars
  /\ [][ \A id \in InFlight :
           waits'[id].settled
           => /\ \/ ~waits[id].acked /\ waits'[id].acked
                 \/ waits[id].timer /\ ~waits'[id].timer
              /\ \A other \in DOMAIN waits \ {id} : waits'[other] = waits[other] ]_vars

\* disconnect() was called with a request awaiting its acknowledgement, a request in
\* the queue and the heartbeat running before.
C27_Witness ==
  /\ ~shouldReconnect
  /\ status = "disconnected"
  /\ InFlight # {}
  /\ queue # <<>>

\* The requests of an application that stays connected: the connection may drop
\* and come back; timeouts elapse, the callback of every wait's timer runs.
AcksNext ==
  \/ \E event \in ManagerEvents : emitWithAck(event)
  \/ connect
  \/ OnConnect
  \/ OnDisconnect(NoRandom)
  \/ \E id \in DOMAIN waits : AckArrives(id) \/ AckTimeout(id)

SpecAcksFair ==
  /\ Init
  /\ [][AcksNext]_vars
  /\ \A id \in 1..MaxRequests : WF_vars(AckTimeout(id))

Transmissions(id) ==
  Cardinality({i \in 1..Len(transmitted) :
                 transmitted[i].id = id /\ transmitted[i].expectAck})

Queued == {queue[i].id : i \in 1..Len(queue)}

AckStep(id) == ~waits[id].acked /\ waits'[id].acked
\* The timer of a wait ends by elapsing, not by the acknowledgement clearing it.
TimeoutStep(id) == waits[id].timer /\ ~waits'[id].timer /\ waits'[id].acked = waits[id].acked

\* C28: a transmitted request with acknowledgement is settled exactly once: its
\* promise is settled at most once, and eventually; it is resolved by the
\* acknowledgement when that arrives while the wait is unsettled, and rejected by
\* the timeout when that elapses while the wait is unsettled; an acknowledgement or
\* a timeout of a settled wait changes nothing; the request is transmitted once and
\* never put in the queue again.
C28_SettledExactlyOnce ==
  /\ [](\A id \in DOMAIN waits :
          /\ Len(promises[id]) <= 1
          /\ waits[id].settled <=> Len(promises[id]) = 1
          /\ Transmissions(id) = 1
          /\ id \notin Queued)
  /\ [][ \A id \in DOMAIN waits :
           /\ AckStep(id) /\ ~waits[id].settled => promises'[id] = <<"resolved">>
           /\ TimeoutStep(id) /\ ~waits[id].settled => promises'[id] = <<"rejected">>
           /\ waits[id].settled => promises'[id] = promises[id]
           /\ ~AckStep(id) /\ ~TimeoutStep(id) => promises'[id] = promises[id] ]_vars
  /\ \A id \in 1..MaxRequests :
       (id \in DOMAIN waits) ~> (id \in DOMAIN waits /\ Len(promises[id]) = 1)

\* A request was rejected by its timeout and its acknowledgement arrived afterwards.
C28_Witness ==
  \E id \in DOMAIN waits :
    /\ promises[id] = <<"rejected">>
    /\ waits[id].acked

\* C29: provided the client is connected again and again, every request issued with
\* an acknowledgement expected, online or offline, evicted from the full queue or
\* not, eventually has its promise resolved or rejected.
C29_EveryRequestSettles ==
  ([]<>connected)
    => \A id \in 1..MaxRequests :
         (id \in DOMAIN promises) ~> (id \in DOMAIN promises /\ promises[id] # <<>>)

(***************************************************************************)
(* Properties of the client's audio retry policy.                          *)
(***************************************************************************)
RetryQueueIds(q) == {q[i].id : i \in 1..Len(q)}

HeldIds ==
  RetryQueueIds(audioRetryQueue) \cup {payload.id : payload \in sending}
    \cup UNION {RetryQueueIds(drains[d].pending) : d \in DOMAIN drains}

AudioTransmissions(sent, id) ==
  Cardinality({i \in 1..Len(sent) :
                 sent[i].id = id /\ sent[i].event = "send-audio-message"})

Retryable == {"internal", "timeout"}

\* The steps after which a payload may be in the retry queue: a valid payload sent
\* while offline, and a direct send or a send of a drain that timed out or was
\* answered internal.
RetryableStep ==
  \/ \E durationMs \in AudioDurations :
       /\ ~connected
       /\ validateAudioPayload([id |-> nextPayloadId, durationMs |-> durationMs]) = "valid"
       /\ sendAudioMessage(durationMs)
  \/ \E payload \in sending : \E outcome \in Retryable : SendSettled(payload, outcome)
  \/ \E d \in DOMAIN drains : \E outcome \in Retryable : DrainSettled(d, outcome)

\* C31: a payload enters the retry queue only in a send made offline or in a send,
\* direct or of a drain, that timed out or was answered internal; a payload
\* rejected by the local validation is reported failed, and neither queued nor
\* transmitted; a send, direct or of a drain, answered with another failure code
\* reports the payload failed; and a payload reported failed is in no queue, drain
\* or send, and is never transmitted again.
C31_OnlyRetryableIsQueued ==
  /\ [][ RetryQueueIds(audioRetryQueue') \ RetryQueueIds(audioRetryQueue) # {}
         => RetryableStep ]_vars
  /\ [][ \A durationMs \in AudioDurations :
           ( /\ validateAudioPayload([id |-> nextPayloadId, durationMs |-> durationMs]) # "valid"
             /\ sendAudioMessage(durationMs) )
           => /\ reported'[nextPayloadId] = {"failed"}
              /\ audioRetryQueue' = audioRetryQueue
              /\ sending' = sending
              /\ transmitted' = transmitted ]_vars
  /\ [][ /\ \A payload \in sending :
              SendSettled(payload, "rejected") => "failed" \in reported'[payload.id]
         /\ \A d \in DOMAIN drains :
              DrainSettled(d, "rejected")
                => "failed" \in reported'[Head(drains[d].pending).id] ]_vars
  /\ [](\A id \in DOMAIN reported : "failed" \in reported[id] => id \notin HeldIds)
  /\ [][ \A id \in DOMAIN reported :
           "failed" \in reported[id]
             => AudioTransmissions(transmitted', id) = AudioTransmissions(transmitted, id) ]_vars

\* A payload was queued for a retry, and the retry was answered with a failure code
\* other than internal: it is reported failed and is no longer held.
C31_Witness ==
  \E id \in DOMAIN reported :
    /\ {"queued", "failed"} \subseteq reported[id]
    /\ id \notin HeldIds
    /\ AudioTransmissions(transmitted, id) >= 1

(***************************************************************************)
(* The heartbeat: requests and pings of a client whose connection may drop *)
(* and come back.  A set timer fires, and the server answers a request it  *)
(* has a handler for while the connection is up.                           *)
(***************************************************************************)
HeartbeatNext == AcksNext \/ HeartbeatTick

SpecHeartbeatFair ==
  /\ Init
  /\ [][HeartbeatNext]_vars
  /\ \A id \in 1..MaxRequests : WF_vars(AckTimeout(id)) /\ WF_vars(AckArrives(id))

Heartbeats == {id \in DOMAIN waits : waits[id].event = "client:heartbeat"}
TimeoutSample == [quality |-> "poor", latencyMs |-> Null]

HeartbeatSamplesClassified ==
  /\ [][ quality'.latencyMs # Null /\ quality' # quality
         => quality'.quality =
              IF quality'.latencyMs.v <= 200 THEN "good"
              ELSE IF quality'.latencyMs.v <= 500 THEN "ok" ELSE "poor" ]_vars
  /\ [][ quality' = TimeoutSample /\ quality # TimeoutSample
         => \E id \in Heartbeats : TimeoutStep(id) /\ ~waits[id].acked ]_vars
  /\ [][ Len(transmitted') > Len(transmitted)
           /\ transmitted'[Len(transmitted')].event = "client:heartbeat"
         => connected ]_vars
  /\ [](heartbeatTimer => connected /\ status = "connected")

\* C32: a heartbeat sent over a connection that stays up is acknowledged: its
\* promise is resolved, not rejected by the 5 s timeout, unless the connection
\* drops; a sample with a latency is good up to 200 ms, ok up to 500 ms and poor
\* above; the sample poor without latency comes only from the timeout of a
\* heartbeat that was not acknowledged; a heartbeat is transmitted only while
\* connected, and the heartbeat timer exists only while connected.
C32_HeartbeatMeasuresLatency ==
  /\ \A id \in 1..MaxRequests :
       [](id \in Heartbeats
            => <>(~connected \/ (id \in DOMAIN promises /\ promises[id] = <<"resolved">>)))
  /\ HeartbeatSamplesClassified

(***************************************************************************)
(* Properties of the emergency cooldown.                                   *)
(***************************************************************************)
\* The request handled last was an emergency broadcast of connection s, fanned out
\* under the id msgId.
AlertBy(s, msgId) ==
  /\ last.op = "emergency"
  /\ last.socket = s
  /\ last.ack.ok
  /\ last.ack.msgId = msgId

\* C33: once a connection has originated an emergency:alert at time t, every other
\* emergency:alert the same connection originates afterwards comes at t + cooldown
\* or later, whatever the connection creates, joins or leaves in between.
C33_CooldownPerConnection ==
  \A s \in Sockets : \A msgId \in 1..MaxMessages : \A t \in 1..MaxTime :
    [](AlertBy(s, msgId) /\ now = t
         => [](\A later \in 1..MaxMessages :
                 AlertBy(s, later) /\ later # msgId => now >= t + RATE_LIMIT_WINDOW_MS))

(***************************************************************************)
(* Properties of the playback scheduler.                                   *)
(***************************************************************************)
\* The item taken from the queue first among those whose decode is in progress.
OldestDecoding == CHOOSE d \in decoding : \A e \in decoding : d.token <= e.token

SlotFilled == currentRef = NoCurrent /\ currentRef' # NoCurrent

\* The playing item's source ends.
CurrentEnded == \E token \in sources : currentRef.token = token /\ Ended(token)

Taken(item) == \E d \in decoding' \ decoding : d.item = item

\* C34: the slot holds one item, started under the newest token; when the playing
\* item ends and the queue is not empty, the head of the queue is taken and is the
\* next item in the slot: an item that enters the slot is the one taken from the
\* queue first among those still decoding; when a decode fails and the queue is not
\* empty, the head of the queue is taken in the same step.
C34_QueueHeadPlaysNext ==
  /\ [](currentRef # NoCurrent
          => currentRef.token = playbackTokenRef /\ currentRef.token \in sources)
  /\ [][ CurrentEnded /\ queueRef # <<>>
         => Taken(Head(queueRef)) /\ queueRef' = Tail(queueRef) ]_vars
  /\ [][ \A d \in decoding :
           DecodeDone(d, FALSE) /\ queueRef # <<>> /\ currentRef = NoCurrent
             => Taken(Head(queueRef)) /\ queueRef' = Tail(queueRef) ]_vars
  /\ [][ SlotFilled => currentRef'.id = OldestDecoding.item.id ]_vars

\* The scheduler with its callbacks running: a decode in progress ends, well or
\* with an error; a started source ends; a continuation runs.
SpecPlayerFair ==
  /\ Init
  /\ [][PlayerNext]_vars
  /\ WF_vars(InterruptContinuation)
  /\ WF_vars(\E d \in decoding : \E ok \in BOOLEAN : DecodeDone(d, ok))
  /\ WF_vars(\E token \in sources : Ended(token))

Enqueued(id) == playerLast.op = "enqueue" /\ playerLast.item.id = id

\* C35: every item given to enqueueItem is eventually in the playing slot, unless
\* stopAll is called, an urgent item interrupts, or the decode of the item fails.
C35_EveryItemPlays ==
  \A id \in 1..MaxItems :
    [](Enqueued(id)
         => <>(\/ currentRef.id = id
               \/ playerLast.op \in {"stopAll", "interrupt"}
               \/ playerLast.op = "decodeFailed" /\ playerLast.item.id = id))

\* C36: when the callback of a source ends under a token other than that of the
\* item in the slot (the source was stopped or superseded), the slot, the queue,
\* the token and the decodes in progress are left as they are.
C36_StaleCallbackChangesNothing ==
  [][ \A token \in sources :
        Ended(token) /\ currentRef.token # token
          => /\ currentRef' = currentRef
             /\ queueRef' = queueRef
             /\ playbackTokenRef' = playbackTokenRef
             /\ decoding' = decoding ]_vars

\* The callback of a stopped source has run while a newer item is in the slot and
\* another waits in the queue.
C36_Witness ==
  /\ playerLast.op = "ended"
  /\ currentRef # NoCurrent
  /\ queueRef # <<>>

\* The queue q with the item put in front of its element number k + 1.
InsertedAfter(q, k, item) == SubSeq(q, 1, k) \o <<item>> \o SubSeq(q, k + 1, Len(q))

\* C37: with nothing playing and priority respected, an urgent item is put at the
\* front of the queue, an important item just before the first routine item (at the
\* tail when there is none) and a routine item at the tail; the items already
\* queued keep their order.
C37_PlacedByPriority ==
  [][ ( /\ playerLast'.op = "enqueue"
        /\ playerLast'.options.respectPriority
        /\ currentRef = NoCurrent )
      => LET item == playerLast'.item
             placed == playerLast'.placed
         IN /\ item.priority = "urgent" => placed = InsertedAfter(queueRef, 0, item)
            /\ item.priority = "important"
                 => \E k \in 0..Len(queueRef) :
                      /\ placed = InsertedAfter(queueRef, k, item)
                      /\ \A i \in 1..k : queueRef[i].priority # "routine"
                      /\ k < Len(queueRef) => queueRef[k + 1].priority = "routine"
            /\ item.priority = "routine"
                 => placed = InsertedAfter(queueRef, Len(queueRef), item)
            /\ \E k \in 1..Len(placed) :
                 /\ placed[k] = item
                 /\ queueRef = SubSeq(placed, 1, k - 1) \o SubSeq(placed, k + 1, Len(placed)) ]_vars

\* With nothing playing, an important item was put between a queued item that is
\* not routine and the first routine item.
C37_Witness ==
  /\ playerLast.op = "enqueue"
  /\ playerLast.options.respectPriority
  /\ playerLast.item.priority = "important"
  /\ currentRef = NoCurrent
  /\ Len(playerLast.placed) = 3
  /\ playerLast.placed[1].priority # "routine"
  /\ playerLast.placed[2] = playerLast.item
  /\ playerLast.placed[3].priority = "routine"

HistoryStep == playerLast'.op = "history"

Pos(q, item) == CHOOSE k \in 1..Len(q) : q[k] = item

InQueue(q, item) == \E k \in 1..Len(q) : q[k] = item

\* C38: the audio-history handler never stops the playing item, whatever the
\* priorities replayed, and puts the replayed items behind the queued ones in the
\* order of the payload; no step changes the order of two items that stay queued.
C38_HistoryKeepsOrder ==
  /\ [][ HistoryStep /\ currentRef # NoCurrent
         => /\ currentRef' = currentRef
            /\ playbackTokenRef' = playbackTokenRef
            /\ microtasks' = microtasks
            /\ queueRef' = queueRef \o playerLast'.placed ]_vars
  /\ [][ HistoryStep
         => LET all == queueRef \o playerLast'.placed
            IN /\ \A i \in 1..Len(playerLast'.placed) :
                    playerLast'.placed[i].id = nextItemId + i - 1
               /\ \E k \in 0..Len(all) : queueRef' = SubSeq(all, k + 1, Len(all)) ]_vars
  /\ [][ \A i, j \in 1..Len(queueRef) :
           (i < j /\ InQueue(queueRef', queueRef[i]) /\ InQueue(queueRef', queueRef[j]))
             => Pos(queueRef', queueRef[i]) < Pos(queueRef', queueRef[j]) ]_vars

\* While an item plays and another waits, a history event has delivered a routine
\* and then an urgent message: the item still plays and both are queued, the urgent
\* one last.
C38_Witness ==
  /\ playerLast.op = "history"
  /\ currentRef # NoCurrent
  /\ Len(playerLast.placed) = 2
  /\ playerLast.placed[1].priority = "routine"
  /\ playerLast.placed[2].priority = "urgent"
  /\ Len(queueRef) = 3
  /\ SubSeq(queueRef, 2, 3) = playerLast.placed

AlertStep == playerLast'.op = "alert"

TonesRendering == {d \in decoding : d.item.kind = "sos"}

\* C39: the emergency:alert handler empties the queue, stops the playing item
\* whatever its priority and starts the tone, an urgent item, under the newest
\* token; and while a tone is being rendered nothing but a later tone enters the
\* playing slot.
C39_AlertTonePlaysNext ==
  /\ [][ AlertStep
         => /\ queueRef' = <<>>
            /\ currentRef' = NoCurrent
            /\ playerLast'.item.priority = "urgent"
            /\ [item |-> playerLast'.item, token |-> playbackTokenRef'] \in decoding'
            /\ currentRef # NoCurrent => playbackTokenRef' > currentRef.token + 1 ]_vars
  /\ [](currentRef # NoCurrent
          => \A d \in TonesRendering : currentRef.kind = "sos" /\ currentRef.id > d.item.id)

\* stopAll has returned and the items enqueued before the call are those with an
\* id below n.
StopAllReturned(n) ==
  /\ microtasks = <<>>
  /\ playerLast.op = "stopAll"
  /\ nextItemId = n

\* C40: once stopAll has returned, no item enqueued before the call is ever in
\* the playing slot, an item whose decode was in progress at the call included.
C40_NothingOlderPlaysAfterStopAll ==
  \A n \in 1..(MaxItems + 1) :
    [](StopAllReturned(n) => [](currentRef = NoCurrent \/ currentRef.id >= n))

============================================================================
